---- MODULE Spec2Model ----
(***************************************************************************)
(* A model of the rinja code generator (rinja_derive/src/generator.rs).    *)
(*                                                                         *)
(* Representation                                                          *)
(*   - a string is a sequence of one-character strings, so that length,    *)
(*     emptiness, "contains a newline" and concatenation are computed;     *)
(*   - lowered host code (an expression) is a sequence of tokens;          *)
(*   - Option<T> is a sequence of length 0 (None) or 1 (Some);             *)
(*   - the Buffer is the sequence of the lines written to it, each line a  *)
(*     record naming the statement that the code writes;                   *)
(*   - a scope of the MapChain is a set of bindings, one per key.          *)
(* The generator state `st` holds the fields of Generator together with    *)
(* the Buffer that every handler receives as `buf`.  A handler is an       *)
(* operator from (E, ctx, st, node) to [st, sz]; a CompileError or a panic *)
(* is recorded in st.err and ends the walk, as `?` does.                   *)
(***************************************************************************)
EXTENDS Integers, Sequences, FiniteSets, TLC

VARIABLES
    input,      \* TemplateInput: whitespace policy, block selector, source
    contexts,   \* path -> Context
    ctx,        \* the Context whose nodes the top-level walk handles
    st,         \* the Generator and the Buffer
    pc,         \* index of the next top-level node; 0 once the walk ended
    size_hint,  \* the accumulator of Generator::handle at level Top
    phase,      \* "walk", "done" or "error"
    features,   \* the cargo features the crate is built with
    conv        \* an error conversion: [op, arg, res]

vars == <<input, contexts, ctx, st, pc, size_hint, phase, features, conv>>

--------------------------------------------------------------------------
(* Option *)
NoneV == <<>>
Some(x) == <<x>>
IsSome(o) == o # <<>>
IsNone(o) == o = <<>>

(* strings *)
NL == "\n"
SPC == " "
ContainsNL(s) == \E i \in 1..Len(s) : s[i] = NL

RECURSIVE Concat(_)
Concat(ss) == IF ss = <<>> THEN <<>> ELSE Head(ss) \o Concat(Tail(ss))

RECURSIVE SumSeq(_)
SumSeq(ns) == IF ns = <<>> THEN 0 ELSE Head(ns) + SumSeq(Tail(ns))

SeqToSet(s) == {s[i] : i \in 1..Len(s)}

--------------------------------------------------------------------------
(* rinja::Error and its conversions.  An error value is a record whose     *)
(* field t names its type: "fmt" for fmt::Error, "io" for io::Error with   *)
(* the error it wraps (if any) in `inner`, "rinja" for rinja's Error with  *)
(* its variant in v, "json" for serde_json::Error and "other" for any     *)
(* other error type.                                                       *)
FmtErr == [t |-> "fmt"]
OtherErr == [t |-> "other"]
JsonErr == [t |-> "json"]
IoErr(inner) == [t |-> "io", inner |-> inner]

ErrorFmt == [t |-> "rinja", v |-> "Fmt"]
ErrorCustom(err) == [t |-> "rinja", v |-> "Custom", err |-> err]
\* the variant Json exists in a build with the feature serde_json
ErrorJson(err) == [t |-> "rinja", v |-> "Json", err |-> err]

MaxErrorUnwrapCount == 5

\* ErrorKind::inspect with a rinja Error taken for any other error
InspectOther(err) ==
    CASE err.t = "fmt" -> "Fmt"
      [] err.t = "io" -> "Io"
      [] err.t = "json" /\ "serde_json" \in features -> "Json"
      [] OTHER -> "Custom"

\* ErrorKind::inspect; the test for a serde_json::Error is compiled only
\* with the feature serde_json
Inspect(err) ==
    CASE err.t = "fmt" -> "Fmt"
      [] err.t = "io" -> "Io"
      [] err.t = "rinja" -> "Rinja"
      [] err.t = "json" /\ "serde_json" \in features -> "Json"
      [] OTHER -> "Custom"

\* from_from_io_error
RECURSIVE FromFromIoError(_, _)
FromFromIoError(err, unwraps) ==
    IF IsNone(err.inner) THEN ErrorCustom(err)
    ELSE IF unwraps = 0 THEN ErrorCustom(err.inner[1])
    ELSE CASE Inspect(err.inner[1]) = "Fmt" -> ErrorFmt
           [] Inspect(err.inner[1]) = "Rinja" -> err.inner[1]
           [] Inspect(err.inner[1]) = "Json" -> ErrorJson(err.inner[1])
           [] Inspect(err.inner[1]) = "Custom" -> ErrorCustom(err.inner[1])
           [] Inspect(err.inner[1]) = "Io" -> FromFromIoError(err.inner[1], unwraps - 1)

\* error_from_stderror
ErrorFromStderror(err, unwraps) ==
    IF unwraps = 0 THEN ErrorCustom(err)
    ELSE CASE Inspect(err) = "Fmt" -> ErrorFmt
           [] Inspect(err) = "Custom" -> ErrorCustom(err)
           [] Inspect(err) = "Json" -> ErrorJson(err)
           [] Inspect(err) = "Io" -> FromFromIoError(err, unwraps - 1)
           [] Inspect(err) = "Rinja" -> err

\* impl From<Box<dyn StdError + Send + Sync>> for Error
FromBox(err) == ErrorFromStderror(err, MaxErrorUnwrapCount)

\* From<io::Error> with twice the budget of unwraps
FromIoTwice(err) == FromFromIoError(err, 2 * MaxErrorUnwrapCount)

\* impl From<io::Error> for Error
FromIo(err) == FromFromIoError(err, MaxErrorUnwrapCount)

\* Error::into_box: the error that Custom or Json holds, a fmt::Error for
\* Fmt
IntoBox(e) ==
    CASE e.v = "Fmt" -> FmtErr
      [] e.v = "Custom" -> e.err
      [] e.v = "Json" -> e.err

\* Error::into_io_error with every error wrapped
IntoIoErrorWrapped(e) == IoErr(Some(IntoBox(e)))

\* Error::into_io_error; io::Error::other(e) is the io::Error that wraps e
IntoIoError(e) ==
    IF e.v = "Custom" /\ e.err.t = "io" THEN e.err ELSE IoErr(Some(IntoBox(e)))

\* no conversion: the value of conv while a template is compiled
Idle == [op |-> "idle", arg |-> NoneV, res |-> NoneV]

\* the conversions, one per step
ConvertBox ==
    /\ conv.op = "start"
    /\ conv' = [op |-> "from_box", arg |-> conv.arg, res |-> FromBox(conv.arg)]
    /\ UNCHANGED <<input, contexts, ctx, st, pc, size_hint, phase, features>>

ConvertIo ==
    /\ conv.op = "start"
    /\ conv.arg.t = "io"
    /\ conv' = [op |-> "from_io", arg |-> conv.arg, res |-> FromIo(conv.arg)]
    /\ UNCHANGED <<input, contexts, ctx, st, pc, size_hint, phase, features>>

\* into_io_error of an Error at hand, or of the Error a conversion gave
ConvertIntoIo ==
    /\ \/ conv.op = "start" /\ conv.arg.t = "rinja"
          /\ conv' = [op |-> "into_io", arg |-> conv.arg, res |-> IntoIoError(conv.arg)]
       \/ conv.op \in {"from_box", "from_io"}
          /\ conv' = [op |-> "into_io", arg |-> conv.res, res |-> IntoIoError(conv.res)]
    /\ UNCHANGED <<input, contexts, ctx, st, pc, size_hint, phase, features>>

--------------------------------------------------------------------------
(* normalize_identifier: a Rust keyword becomes its raw identifier *)
Keywords ==
    {"as", "do", "fn", "if", "in",
     "box", "dyn", "for", "let", "mod", "mut", "pub", "ref", "try", "use",
     "else", "enum", "impl", "move", "priv", "true", "type",
     "async", "await", "break", "const", "crate", "false", "final", "macro", "match",
     "trait", "where", "while", "yield",
     "become", "extern", "return", "static", "struct", "typeof", "unsafe",
     "virtual",
     "abstract", "continue", "override", "unsized"}

NormalizeIdentifier(ident) ==
    IF ident \in Keywords THEN "r#" \o ident ELSE ident

--------------------------------------------------------------------------
(* LocalMeta and MapChain *)
LocalMetaDefault(key) == [name |-> key, refs |-> NoneV, initialized |-> FALSE]
LocalMetaInitialized(key) == [name |-> key, refs |-> NoneV, initialized |-> TRUE]
LocalMetaWithRef(key, text) == [name |-> key, refs |-> Some(text), initialized |-> TRUE]

EmptyScope == {}

\* MapChain::default
MapChainDefault == [parent |-> <<>>, scopes |-> <<EmptyScope>>]

\* a chain that starts empty, with no parent
MapChainWithoutParent(p) == [parent |-> <<>>, scopes |-> <<EmptyScope>>]

\* MapChain::with_parent: the parent chain is lent; `parent` lists the
\* parent's scopes in the order MapChain::get walks them back to front
MapChainWithParent(p) == [parent |-> p.parent \o p.scopes, scopes |-> <<EmptyScope>>]

ScopeHas(scope, key) == \E b \in scope : b.name = key
ScopeGet(scope, key) == CHOOSE b \in scope : b.name = key

RECURSIVE ScopesGet(_, _)
ScopesGet(scopes, key) ==
    IF scopes = <<>> THEN NoneV
    ELSE LET last == scopes[Len(scopes)]
         IN IF ScopeHas(last, key) THEN Some(ScopeGet(last, key))
            ELSE ScopesGet(SubSeq(scopes, 1, Len(scopes) - 1), key)

\* MapChain::get
MapChainGet(m, key) ==
    LET own == ScopesGet(m.scopes, key)
    IN IF IsSome(own) THEN own ELSE ScopesGet(m.parent, key)

\* MapChain::is_current_empty
IsCurrentEmpty(m) == m.scopes[Len(m.scopes)] = EmptyScope

\* MapChain::insert
MapChainInsert(m, meta) ==
    LET n == Len(m.scopes)
    IN [m EXCEPT !.scopes[n] = {b \in @ : b.name # meta.name} \cup {meta}]

\* MapChain::push
MapChainPush(m) == [m EXCEPT !.scopes = Append(@, EmptyScope)]

\* MapChain::pop: `ok` is FALSE when scopes.pop().unwrap() or the assertion
\* that a scope remains fails
MapChainPop(m) ==
    [m  |-> [m EXCEPT !.scopes = IF Len(@) = 0 THEN @ ELSE SubSeq(@, 1, Len(@) - 1)],
     ok |-> Len(m.scopes) >= 2]

\* MapChain::resolve
Resolve(m, name) ==
    LET n == NormalizeIdentifier(name)
        got == MapChainGet(m, n)
    IN IF IsNone(got) THEN NoneV
       ELSE IF IsSome(got[1].refs) THEN Some(got[1].refs[1]) ELSE Some(<<n>>)

\* MapChain::resolve_or_self
ResolveOrSelf(m, name) ==
    LET n == NormalizeIdentifier(name)
        r == Resolve(m, n)
    IN IF IsSome(r) THEN r[1] ELSE <<"self", ".", n>>

--------------------------------------------------------------------------
(* Expr: [k |-> "Num", v], [k |-> "Var", n], [k |-> "Attr", obj, attr],     *)
(* [k |-> "Call", left, args], [k |-> "Try", e], [k |-> "RustMacro", path, *)
(* args], [k |-> "BinOp", op, l, r], [k |-> "Named", n, e]                  *)
Num(v) == [k |-> "Num", v |-> v]
Var(n) == [k |-> "Var", n |-> n]
Attr(obj, attr) == [k |-> "Attr", obj |-> obj, attr |-> attr]
CallE(left, args) == [k |-> "Call", left |-> left, args |-> args]
Try(e) == [k |-> "Try", e |-> e]
RustMacro(path, args) == [k |-> "RustMacro", path |-> path, args |-> args]
BinOp(op, l, r) == [k |-> "BinOp", op |-> op, l |-> l, r |-> r]
Named(n, e) == [k |-> "Named", n |-> n, e |-> e]

\* is_attr_self
RECURSIVE IsAttrSelf(_)
IsAttrSelf(e) ==
    /\ e.k = "Attr"
    /\ \/ e.obj.k = "Var" /\ e.obj.n = "self"
       \/ e.obj.k = "Attr" /\ IsAttrSelf(e.obj)

\* is_copyable_within_op
RECURSIVE IsCopyableWithinOp(_, _)
IsCopyableWithinOp(e, within_op) ==
    CASE e.k = "Num" -> TRUE
      [] e.k = "BinOp" -> IsCopyableWithinOp(e.l, TRUE) /\ IsCopyableWithinOp(e.r, TRUE)
      [] e.k = "Call" -> TRUE
      [] OTHER -> within_op /\ IsAttrSelf(e)

\* is_copyable
IsCopyable(e) == IsCopyableWithinOp(e, FALSE)

\* is_cacheable
RECURSIVE IsCacheable(_)
IsCacheable(e) ==
    CASE e.k = "Num" -> TRUE
      [] e.k = "Var" -> TRUE
      [] e.k = "Attr" -> IsCacheable(e.obj)
      [] e.k = "BinOp" -> IsCacheable(e.l) /\ IsCacheable(e.r)
      [] e.k = "Named" -> IsCacheable(e.e)
      [] e.k = "Call" -> FALSE
      [] e.k = "RustMacro" -> FALSE
      [] e.k = "Try" -> FALSE

LoopAttrs == {"index", "index0", "first", "last"}

\* the callee of visit_call is an attribute of the variable `loop`; the
\* ellipsis of the message of loop.cycle is written as three dots
IsLoopMethod(left) == left.k = "Attr" /\ left.obj.k = "Var" /\ left.obj.n = "loop"

\* visit_expr and the visit_* methods it dispatches to.  The result is
\* [text, err]: the host code written and the CompileError, "" for none;
\* with an error, text is what was written before the `?` that returned it.
\* Every Expr kind of the model lowers to DisplayWrap::Unwrapped.
RECURSIVE VisitExpr(_, _)
RECURSIVE VisitArgs(_, _)
VisitExpr(locals, e) ==
    CASE e.k = "Num" -> [text |-> <<e.v>>, err |-> ""]
      [] e.k = "Var" ->
            IF e.n = "self" THEN [text |-> <<"self">>, err |-> ""]
            ELSE LET r == ResolveOrSelf(locals, e.n)
                 IN [text |-> IF Len(r) = 1 THEN <<NormalizeIdentifier(r[1])>> ELSE r,
                     err |-> ""]
      [] e.k = "Attr" ->
            IF e.obj.k = "Var" /\ e.obj.n = "loop"
            THEN IF e.attr \in LoopAttrs
                 THEN [text |-> CASE e.attr = "index" ->
                                        <<"(", "_loop_item", ".", "index", "+", "1", ")">>
                                  [] e.attr = "index0" -> <<"_loop_item", ".", "index">>
                                  [] OTHER -> <<"_loop_item", ".", e.attr>>,
                       err |-> ""]
                 ELSE [text |-> <<>>, err |-> "unknown loop variable"]
            ELSE LET o == VisitExpr(locals, e.obj)
                 IN IF o.err # "" THEN o
                    ELSE [text |-> o.text \o <<".", NormalizeIdentifier(e.attr)>>, err |-> ""]
      [] e.k = "Call" /\ IsLoopMethod(e.left) ->
            IF e.left.attr # "cycle"
            THEN [text |-> <<>>,
                  err |-> "unknown loop method: \"" \o e.left.attr \o "\""]
            ELSE IF Len(e.args) # 1
            THEN [text |-> <<>>, err |-> "loop.cycle(...) cannot use an empty array"]
            ELSE LET a == VisitExpr(locals, e.args[1])
                 IN IF a.err # ""
                    THEN [text |-> <<"({", "let", "_cycle", "=", "&(">> \o a.text,
                          err |-> a.err]
                    ELSE
                    [text |-> <<"({", "let", "_cycle", "=", "&(">> \o a.text
                              \o <<");", "let", "_len", "=", "_cycle.len();",
                                   "if", "_len", "==", "0", "{",
                                   "return", "::core::result::Result::Err(rinja::Error::Fmt);",
                                   "}", "_cycle[_loop_item.index", "%", "_len]", "})">>,
                     err |-> ""]
      [] e.k = "Call" /\ ~IsLoopMethod(e.left) ->
            LET l == IF e.left.k = "Var"
                     THEN LET r == Resolve(locals, e.left.n)
                          IN [text |-> IF IsSome(r) THEN r[1]
                                       ELSE <<"self", ".", NormalizeIdentifier(e.left.n)>>,
                              err |-> ""]
                     ELSE VisitExpr(locals, e.left)
                 a == VisitArgs(locals, e.args)
            IN IF l.err # "" THEN l
               ELSE [text |-> l.text \o <<"(">> \o a.text
                              \o (IF a.err = "" THEN <<")">> ELSE <<>>),
                     err |-> a.err]
      [] e.k = "Try" ->
            LET i == VisitExpr(locals, e.e)
            IN [text |-> <<"map_err(">> \o i.text \o (IF i.err = "" THEN <<")?">> ELSE <<>>),
                err |-> i.err]
      [] e.k = "RustMacro" -> [text |-> <<e.path, "!(", e.args, ")">>, err |-> ""]
      [] e.k = "BinOp" ->
            LET l == VisitExpr(locals, e.l)
                r == VisitExpr(locals, e.r)
            IN IF l.err # "" THEN l
               ELSE [text |-> l.text \o <<e.op>> \o r.text, err |-> r.err]
      [] e.k = "Named" -> VisitExpr(locals, e.e)

\* _visit_args
VisitArgs(locals, args) ==
    IF args = <<>> THEN [text |-> <<>>, err |-> ""]
    ELSE LET a == Head(args)
             v == VisitExpr(locals, a)
             open == (IF ~IsCopyable(a) THEN <<"&(">> ELSE <<>>)
                         \o (IF a.k = "Call" THEN <<"{">> ELSE <<>>)
             close == (IF a.k = "Call" THEN <<"}">> ELSE <<>>)
                          \o (IF ~IsCopyable(a) THEN <<")">> ELSE <<>>)
             rest == VisitArgs(locals, Tail(args))
         IN IF v.err # "" THEN [text |-> open \o v.text, err |-> v.err]
            ELSE IF Tail(args) = <<>> THEN [text |-> open \o v.text \o close, err |-> ""]
            ELSE [text |-> open \o v.text \o close \o <<",">> \o rest.text,
                  err |-> rest.err]

--------------------------------------------------------------------------
(* Generator::new together with the Buffer the generator writes to.        *)
(* heritage is an Option; out/bdiscard are Buffer.buf and Buffer.discard;  *)
(* bw/bwdiscard are WritableBuffer.buf and WritableBuffer.discard; stack   *)
(* holds the calls of Generator::handle on the call stack.                 *)
GeneratorNew(heritage, locals, buf_writable_discard, is_in_filter_block, out, bdiscard) ==
    [heritage    |-> heritage,
     locals      |-> locals,
     next_ws     |-> NoneV,
     skip_ws     |-> "Preserve",
     super_block |-> NoneV,
     bw          |-> <<>>,
     bwdiscard   |-> buf_writable_discard,
     named       |-> 0,
     fdepth      |-> is_in_filter_block,
     out         |-> out,
     bdiscard    |-> bdiscard,
     stack       |-> <<>>,
     err         |-> ""]

Ok(s) == s.err = ""

\* `return Err(..)` and `?`: the first error ends the walk, and every later
\* step of the handlers leaves a failed state as it is
Fail(s, msg) == IF s.err = "" THEN [s EXCEPT !.err = msg] ELSE s

\* Buffer::writeln / Buffer::write
Writeln(s, line) == IF s.bdiscard \/ s.err # "" THEN s ELSE [s EXCEPT !.out = Append(@, line)]

\* WritableBuffer::push
WritablePush(s, w) == IF s.bwdiscard \/ s.err # "" THEN s ELSE [s EXCEPT !.bw = Append(@, w)]

WLit(chars) == [t |-> "Lit", s |-> chars]
WExpr(e) == [t |-> "Expr", e |-> e]

\* Whitespace marks: "+", "-", "~" or "unset"; Ws == <<prefix, suffix>>
NoWs == <<"unset", "unset">>

\* should_trim_ws
ShouldTrimWs(E, w) ==
    CASE w = "-" -> "Suppress"
      [] w = "+" -> "Preserve"
      [] w = "~" -> "Minimize"
      [] OTHER -> E.input.whitespace

\* a whitespace run reduced to a space whatever it holds
MinimizedToSpace(val) == <<SPC>>

\* the text Minimize leaves of a whitespace run
Minimized(val) == IF ContainsNL(val) THEN <<NL>> ELSE <<SPC>>

\* the match of flush_ws on the policy
FlushWsPush(s, how, val) ==
    CASE how = "Preserve" -> IF val # <<>> THEN WritablePush(s, WLit(val)) ELSE s
      [] how = "Minimize" -> IF val # <<>> THEN WritablePush(s, WLit(Minimized(val))) ELSE s
      [] OTHER -> s

\* flush_ws that writes next_ws and leaves it set
FlushWsPending(E, s, ws) ==
    IF IsNone(s.next_ws) \/ s.err # "" THEN s
    ELSE FlushWsPush(s, ShouldTrimWs(E, ws[1]), s.next_ws[1])

\* flush_ws
FlushWs(E, s, ws) ==
    IF IsNone(s.next_ws) \/ s.err # "" THEN s
    ELSE [FlushWsPush(s, ShouldTrimWs(E, ws[1]), s.next_ws[1]) EXCEPT !.next_ws = NoneV]

\* prepare_ws
PrepareWs(E, s, ws) == IF s.err # "" THEN s ELSE [s EXCEPT !.skip_ws = ShouldTrimWs(E, ws[2])]

\* handle_ws
HandleWs(E, s, ws) == PrepareWs(E, FlushWs(E, s, ws), ws)

\* visit_lit: the leading whitespace
VisitLitLws(s, lit) ==
    IF lit.lws = <<>> \/ s.skip_ws = "Suppress" THEN s
    ELSE IF lit.val = <<>> THEN [s EXCEPT !.next_ws = Some(lit.lws)]
    ELSE IF s.skip_ws = "Preserve" THEN WritablePush(s, WLit(lit.lws))
    ELSE WritablePush(s, WLit(Minimized(lit.lws)))

\* visit_lit: the text
VisitLitVal(s, lit) ==
    IF lit.val # <<>> THEN WritablePush([s EXCEPT !.skip_ws = "Preserve"], WLit(lit.val))
    ELSE s

\* visit_lit: the trailing whitespace
VisitLitRws(s, lit) == IF lit.rws # <<>> THEN [s EXCEPT !.next_ws = Some(lit.rws)] ELSE s

\* visit_lit; a failed assertion is the error "panic: ..."
VisitLit(s, lit) ==
    IF s.err # "" THEN s
    ELSE IF IsSome(s.next_ws) THEN Fail(s, "panic: visit_lit next_ws")
    ELSE IF lit.lws # <<>> /\ s.skip_ws # "Suppress" /\ lit.val = <<>> /\ lit.rws # <<>>
    THEN Fail(s, "panic: visit_lit rws")
    ELSE VisitLitRws(VisitLitVal(VisitLitLws(s, lit), lit), lit)

--------------------------------------------------------------------------
(* The writable queue and its flush *)
R(s, n) == [st |-> s, sz |-> n]
AddSz(r, n) == R(r.st, r.sz + n)

\* The handlers call one another, handle and write_buf_writable through
\* Dispatch, the single entry of their mutual recursion.
RECURSIVE Dispatch(_, _, _, _, _)
WriteBufWritable(s) == Dispatch("write_buf_writable", <<>>, <<>>, s, <<>>)
Handle(E, c, s, nodes, level) ==
    Dispatch("handle", E, c, s, [nodes |-> nodes, level |-> level])
HandleNode(E, c, s, n, level) == Dispatch("node", E, c, s, [n |-> n, level |-> level])

AllLits(bw) == \A i \in 1..Len(bw) : bw[i].t = "Lit"

\* the literal with its braces doubled for the format string
RECURSIVE EscapeBraces(_)
EscapeBraces(chars) ==
    IF chars = <<>> THEN <<>>
    ELSE (IF Head(chars) \in {"{", "}"} THEN <<Head(chars), Head(chars)>> ELSE <<Head(chars)>>)
         \o EscapeBraces(Tail(chars))

FmtChars(chars) == [i \in 1..Len(chars) |-> [t |-> "c", c |-> chars[i], id |-> 0]]
FmtSlot(id) == <<[t |-> "s", c |-> "", id |-> id]>>

\* the escaper applied to an Unwrapped expression
AutoEscaped(text) == <<"AutoEscaper(">> \o text \o <<")?">>

CacheHas(cache, text) == \E c \in cache : c.text = text
CacheGet(cache, text) == (CHOOSE c \in cache : c.text = text).id

\* named_expression with the cache consulted for every expression
NamedExpressionShared(acc, expr, cacheable) ==
    LET expression == AutoEscaped(expr)
    IN IF CacheHas(acc.cache, expression)
       THEN [acc EXCEPT !.fmt = @ \o FmtSlot(CacheGet(acc.cache, expression)),
                        !.size = @ + 3]
       ELSE [acc EXCEPT !.named = @ + 1,
                        !.args = Append(@, [id |-> acc.named, text |-> expression]),
                        !.cache = @ \cup {[text |-> expression, id |-> acc.named]},
                        !.fmt = @ \o FmtSlot(acc.named),
                        !.size = @ + 3]

\* named_expression and the size the loop of prepare_format adds;
\* acc is [named, fmt, args, cache, size, err]
NamedExpression(acc, expr, cacheable) ==
    LET expression == AutoEscaped(expr)
    IN IF CacheHas(acc.cache, expression) /\ cacheable
       THEN [acc EXCEPT !.fmt = @ \o FmtSlot(CacheGet(acc.cache, expression)),
                        !.size = @ + 3]
       ELSE [acc EXCEPT !.named = @ + 1,
                        !.args = Append(@, [id |-> acc.named, text |-> expression]),
                        !.cache = IF CacheHas(@, expression) THEN @
                                  ELSE @ \cup {[text |-> expression, id |-> acc.named]},
                        !.fmt = @ \o FmtSlot(acc.named),
                        !.size = @ + 3]

\* Writable::Expr in the loop of prepare_format
FormatExpr(acc, v, cacheable) ==
    IF v.err # "" THEN [acc EXCEPT !.err = v.err]
    ELSE NamedExpression(acc, v.text, cacheable)

\* Writable::Lit with the size taken after the braces were doubled
FormatLitEscaped(acc, chars) ==
    [acc EXCEPT !.fmt = @ \o FmtChars(EscapeBraces(chars)),
                !.size = @ + Len(EscapeBraces(chars))]

\* Writable::Lit in the loop of prepare_format
FormatLit(acc, chars) ==
    [acc EXCEPT !.fmt = @ \o FmtChars(EscapeBraces(chars)), !.size = @ + Len(chars)]

\* the loop of prepare_format over a mixed queue
RECURSIVE FormatLoop(_, _, _)
FormatLoop(locals, bw, acc) ==
    IF bw = <<>> \/ acc.err # "" THEN acc
    ELSE IF Head(bw).t = "Lit"
    THEN FormatLoop(locals, Tail(bw), FormatLit(acc, Head(bw).s))
    ELSE FormatLoop(locals, Tail(bw),
             FormatExpr(acc, VisitExpr(locals, Head(bw).e), IsCacheable(Head(bw).e)))

\* the result of prepare_format for a mixed queue
FormatResult(s, acc) ==
    [s |-> Fail([s EXCEPT !.bw = <<>>, !.named = acc.named], acc.err),
     size_hint |-> acc.size, kind |-> "fmt", format |-> acc.fmt, expr |-> acc.args]

\* the result of prepare_format for a queue of literals
LitResult(s, lit) ==
    [s |-> [s EXCEPT !.bw = <<>>], size_hint |-> Len(lit), kind |-> "lit",
     format |-> lit, expr |-> <<>>]

\* prepare_format: [s, size_hint, kind, format, expr]; kind is "none" for
\* buffers: None, "lit" for expr: None, "fmt" for expr: Some
PrepareFormat(s) ==
    IF s.bw = <<>>
    THEN [s |-> s, size_hint |-> 0, kind |-> "none", format |-> <<>>, expr |-> <<>>]
    ELSE IF AllLits(s.bw)
    THEN LitResult(s, Concat([i \in 1..Len(s.bw) |-> s.bw[i].s]))
    ELSE FormatResult(s, FormatLoop(s.locals, s.bw,
                             [named |-> s.named, fmt |-> <<>>, args |-> <<>>, cache |-> {},
                              size |-> 0, err |-> ""]))

\* the match of write_buf_writable on the prepared format
WriteFormat(p) ==
    CASE p.kind = "none" -> R(p.s, p.size_hint)
      [] p.kind = "lit" ->
            R(Writeln(p.s, [op |-> "write_str", s |-> p.format]), p.size_hint)
      [] p.kind = "fmt" ->
            R(Writeln(p.s, [op |-> "write", fmt |-> p.format, args |-> p.expr]), p.size_hint)

\* write_buf_writable: [st, sz]
WriteBufWritableDo(s) == IF s.err # "" THEN R(s, 0) ELSE WriteFormat(PrepareFormat(s))

--------------------------------------------------------------------------
(* Nodes.  A Lit holds its leading whitespace, its text and its trailing   *)
(* whitespace; a BlockDef node names the block, whose body is looked up in *)
(* the heritage.                                                           *)
Lit(lws, val, rws) == [k |-> "Lit", lws |-> lws, val |-> val, rws |-> rws]
Comment(ws) == [k |-> "Comment", ws |-> ws]
ExprN(ws, e) == [k |-> "Expr", ws |-> ws, e |-> e]
LetN(ws, var, val) == [k |-> "Let", ws |-> ws, var |-> var, val |-> val]
Cond(ws, cond, nodes) == [ws |-> ws, cond |-> cond, nodes |-> nodes]
CondTest(target, expr) == [target |-> target, expr |-> expr]
IfN(branches, ws) == [k |-> "If", branches |-> branches, ws |-> ws]
When(ws, target, nodes) == [ws |-> ws, target |-> target, nodes |-> nodes]
MatchN(ws1, expr, arms, ws2) ==
    [k |-> "Match", ws1 |-> ws1, expr |-> expr, arms |-> arms, ws2 |-> ws2]
LoopN(ws1, var, iter, cond, body, ws2, else_nodes, ws3) ==
    [k |-> "Loop", ws1 |-> ws1, var |-> var, iter |-> iter, cond |-> cond,
     body |-> body, ws2 |-> ws2, else_nodes |-> else_nodes, ws3 |-> ws3]
BlockDef(name, ws1, ws2, nodes) ==
    [k |-> "BlockDef", name |-> name, ws1 |-> ws1, ws2 |-> ws2, nodes |-> nodes]
IncludeN(ws, path) == [k |-> "Include", ws |-> ws, path |-> path]
CallN(ws, scope, name, args) ==
    [k |-> "Call", ws |-> ws, scope |-> scope, name |-> name, args |-> args]
FilterBlockN(ws1, filter, nodes, ws2) ==
    [k |-> "FilterBlock", ws1 |-> ws1, filter |-> filter, nodes |-> nodes, ws2 |-> ws2]
MacroN(name, ws1, args, nodes, ws2) ==
    [k |-> "Macro", name |-> name, ws1 |-> ws1, args |-> args, nodes |-> nodes, ws2 |-> ws2]
RawN(ws1, lit, ws2) == [k |-> "Raw", ws1 |-> ws1, lit |-> lit, ws2 |-> ws2]
ImportN(ws) == [k |-> "Import", ws |-> ws]
ExtendsN(path) == [k |-> "Extends", path |-> path]
BreakN(ws) == [k |-> "Break", ws |-> ws]
ContinueN(ws) == [k |-> "Continue", ws |-> ws]

(* Targets *)
TName(n) == [k |-> "Name", n |-> n]
TTuple(targets) == [k |-> "Tuple", targets |-> targets]
TNumLit(v) == [k |-> "NumLit", v |-> v]
TPlaceholder == [k |-> "Placeholder"]

\* a line of the Buffer that is not a write of the queue
L(op, text) == [op |-> op, text |-> text]

\* what Buffer::write put of a line into the Buffer when a `?` returned the
\* error before the writeln that ends the line
Unfinished(op, text) == [op |-> op, text |-> text, unfinished |-> TRUE]

\* visit_target: [locals, text]
RECURSIVE VisitTarget(_, _, _, _)
RECURSIVE VisitTargets(_, _, _)
VisitTarget(locals, initialized, first_level, target) ==
    CASE target.k = "Name" ->
            LET name == NormalizeIdentifier(target.n)
            IN [locals |-> MapChainInsert(locals,
                               IF initialized THEN LocalMetaInitialized(name)
                               ELSE LocalMetaDefault(name)),
                text |-> <<name>>]
      [] target.k = "Tuple" ->
            LET r == VisitTargets(locals, initialized, target.targets)
            IN [locals |-> r.locals, text |-> <<"(">> \o r.text \o <<")">>]
      [] target.k = "NumLit" ->
            [locals |-> locals,
             text |-> (IF first_level THEN <<"&">> ELSE <<>>) \o <<target.v>>]
      [] target.k = "Placeholder" -> [locals |-> locals, text |-> <<"_">>]

VisitTargets(locals, initialized, targets) ==
    IF targets = <<>> THEN [locals |-> locals, text |-> <<>>]
    ELSE LET h == VisitTarget(locals, initialized, FALSE, Head(targets))
             r == VisitTargets(h.locals, initialized, Tail(targets))
         IN [locals |-> r.locals, text |-> h.text \o <<",">> \o r.text]

\* is_shadowing_variable: "yes", "no" or "error"
RECURSIVE IsShadowingVariable(_, _)
RECURSIVE IsShadowingAny(_, _)
IsShadowingVariable(locals, var) ==
    CASE var.k = "Name" ->
            LET got == MapChainGet(locals, NormalizeIdentifier(var.n))
            IN IF IsSome(got) /\ got[1].initialized THEN "yes" ELSE "no"
      [] var.k = "Tuple" -> IsShadowingAny(locals, var.targets)
      [] OTHER -> "error"

IsShadowingAny(locals, targets) ==
    IF targets = <<>> THEN "no"
    ELSE LET h == IsShadowingVariable(locals, Head(targets))
         IN IF h = "no" THEN IsShadowingAny(locals, Tail(targets)) ELSE h

\* locals.push() / locals.pop() inside a handler; a pop that finds no
\* scope to remove or leaves none is the error "panic: pop"
Push(s) == IF s.err # "" THEN s ELSE [s EXCEPT !.locals = MapChainPush(@)]

Pop(s) ==
    IF s.err # "" THEN s
    ELSE IF MapChainPop(s.locals).ok THEN [s EXCEPT !.locals = MapChainPop(s.locals).m]
    ELSE Fail([s EXCEPT !.locals = MapChainPop(s.locals).m], "panic: pop")

\* the line that a visit_target call opens: the target's names are bound
\* and its pattern t.text is written
WithTarget(s, t, op) ==
    IF s.err # "" THEN s ELSE Writeln([s EXCEPT !.locals = t.locals], L(op, t.text))

\* write_let: `let var;`
WriteLetDecl(s, l) == WithTarget(s, VisitTarget(s.locals, FALSE, TRUE, l.var), "let_decl")

\* write_let: the test that guards buf.write("let ")
WriteLetKeyword(locals, var, shadowed) ==
    \/ shadowed
    \/ var.k # "Name"
    \/ var.k = "Name" /\ IsNone(MapChainGet(locals, var.n))

\* write_let: the assignment
WriteLetAssign(s, l, v, shadowed, t) ==
    IF s.err # "" THEN s
    ELSE Writeln([s EXCEPT !.locals = t.locals],
             [op |-> "let", kw |-> WriteLetKeyword(s.locals, l.var, shadowed),
              target |-> t.text, borrow |-> ~IsCopyable(l.val[1]), value |-> v.text])

\* write_let: the flush for a shadowed variable
WriteLetShadow(s, l, v, shadowed) ==
    WriteLetAssign(s, l, v, shadowed, VisitTarget(s.locals, TRUE, TRUE, l.var))

\* write_let: `let var = val;`
WriteLetValue(s, l, v, sh) ==
    IF s.err # "" THEN s
    ELSE IF v.err # "" THEN Fail(s, v.err)
    ELSE IF sh = "error"
    THEN Fail(s, "literals are not allowed on the left-hand side of an assignment")
    ELSE WriteLetShadow(IF sh = "yes" THEN WriteBufWritable(s).st ELSE s, l, v, sh = "yes")

\* the part of write_let after handle_ws
WriteLetBody(s, l) ==
    IF IsNone(l.val) THEN WriteLetDecl(WriteBufWritable(s).st, l)
    ELSE WriteLetValue(s, l, VisitExpr(s.locals, l.val[1]),
             IsShadowingVariable(s.locals, l.var))

\* write_let
WriteLet(E, s, l) == WriteLetBody(HandleWs(E, s, l.ws), l)

\* median
RECURSIVE SortInsert(_, _)
SortInsert(sorted, x) ==
    IF sorted = <<>> THEN <<x>>
    ELSE IF x <= Head(sorted) THEN <<x>> \o sorted
    ELSE <<Head(sorted)>> \o SortInsert(Tail(sorted), x)

RECURSIVE SortUnstable(_)
SortUnstable(sizes) ==
    IF sizes = <<>> THEN <<>> ELSE SortInsert(SortUnstable(Tail(sizes)), Head(sizes))

Median(sizes) ==
    LET sorted == SortUnstable(sizes)
        n == Len(sorted)
    IN IF n % 2 = 1 THEN sorted[(n \div 2) + 1]
       ELSE (sorted[n \div 2] + sorted[(n \div 2) + 1]) \div 2

--------------------------------------------------------------------------
(* Context: [path, nodes, macros, imports, blocks, extends]; macros and    *)
(* blocks are sets of definitions keyed by name, imports a set of          *)
(* [alias, path].                                                          *)
HasNamed(defs, name) == \E d \in defs : d.name = name
GetNamed(defs, name) == CHOOSE d \in defs : d.name = name
HasImport(imports, alias) == \E i \in imports : i.alias = alias
GetImport(imports, alias) == (CHOOSE i \in imports : i.alias = alias).path

\* entry(name).or_insert(..) over the macros and imports of the current
\* context: the child's own definitions win
MergeContext(child_ctx, cur) ==
    [child_ctx EXCEPT
        !.macros = @ \cup {m \in cur.macros : ~HasNamed(child_ctx.macros, m.name)},
        !.imports = @ \cup {i \in cur.imports : ~HasImport(child_ctx.imports, i.alias)}]

\* Heritage::new: the block definitions along the extends chain, most
\* derived first, and the root context
RECURSIVE HeritageChain(_, _, _)
HeritageChain(c, cs, fuel) ==
    IF IsNone(c.extends) \/ fuel = 0 THEN <<c>>
    ELSE <<c>> \o HeritageChain(cs[c.extends[1]], cs, fuel - 1)

HeritageNew(c, cs) ==
    LET chain == HeritageChain(c, cs, Cardinality(DOMAIN cs))
        names == UNION {{b.name : b \in chain[i].blocks} : i \in 1..Len(chain)}
        defsOf(n) == SelectSeq([i \in 1..Len(chain) |->
                                   IF HasNamed(chain[i].blocks, n)
                                   THEN <<[ctx |-> chain[i], def |-> GetNamed(chain[i].blocks, n)]>>
                                   ELSE <<>>],
                               LAMBDA x : x # <<>>)
    IN [root |-> chain[Len(chain)],
        blocks |-> {[name |-> n,
                     chain |-> [i \in 1..Len(defsOf(n)) |-> defsOf(n)[i][1]]] : n \in names}]

--------------------------------------------------------------------------
(* The handlers.  Each returns [st, sz]: the state after the handler and   *)
(* the size hint it returns.  A handler is split where the code binds a    *)
(* result that later statements use.                                       *)

\* WhitespaceHandling -> Whitespace (skip_ws.into())
IntoWhitespace(h) ==
    CASE h = "Preserve" -> "+"
      [] h = "Suppress" -> "-"
      [] h = "Minimize" -> "~"

Close(s) == Writeln(s, L("close", <<>>))

\* the arms of the match in handle that call no other handler
WriteComment(E, s, n) == HandleWs(E, s, n.ws)

WriteExpr(E, s, n) == WritablePush(HandleWs(E, s, n.ws), WExpr(n.e))

HandleMacro(E, s, n, level) ==
    IF level # "Top" THEN Fail(s, "macro blocks only allowed at the top level")
    ELSE PrepareWs(E, FlushWs(E, s, n.ws1), n.ws2)

HandleRaw(E, s, n) == HandleWs(E, VisitLit(HandleWs(E, s, n.ws1), n.lit), n.ws2)

HandleImport(E, s, n, level) ==
    IF level # "Top" THEN Fail(s, "import blocks only allowed at the top level")
    ELSE HandleWs(E, s, n.ws)

\* the arm of Node::Extends without the test of the level
HandleExtendsAnywhere(s, level) == s

HandleExtends(s, level) ==
    IF level # "Top" THEN Fail(s, "extend blocks only allowed at the top level") ELSE s

HandleBreak(E, s, n) == Writeln(WriteBufWritable(HandleWs(E, s, n.ws)).st, L("break", <<>>))

HandleContinue(E, s, n) ==
    Writeln(WriteBufWritable(HandleWs(E, s, n.ws)).st, L("continue", <<>>))

RECURSIVE HandleLoop(_, _, _, _, _, _)
RECURSIVE IfBranches(_, _, _, _, _)
RECURSIVE MatchArms(_, _, _, _, _)

\* the tail of handle, after the loop over the nodes
HandleTail(E, s, level, size) ==
    IF level # "Top" \/ s.err # "" THEN R(s, size)
    ELSE AddSz(WriteBufWritable(IF IsSome(s.next_ws)
                                THEN FlushWs(E, s, <<IntoWhitespace(s.skip_ws), "unset">>)
                                ELSE s),
               size)

HandleReturn(r, stack) == R([r.st EXCEPT !.stack = stack], r.sz)

HandleEnd(E, r, level, stack) ==
    IF r.st.err # "" THEN HandleReturn(r, stack)
    ELSE HandleReturn(HandleTail(E, r.st, level, r.sz), stack)

--------------------------------------------------------------------------
(* write_if *)
IfKeyword(i) == IF i = 1 THEN "if" ELSE "else_if"

\* `if let target = &expr`
IfLetLine(s, kw, test, chained, left, tgt, right) ==
    IF left.err # "" THEN Fail(Writeln(s, Unfinished(kw, <<"let">>)), left.err)
    ELSE IF chained /\ right.err # ""
    THEN Fail(Writeln([s EXCEPT !.locals = tgt.locals], Unfinished(kw, <<"let">> \o tgt.text)),
              right.err)
    ELSE Writeln([s EXCEPT !.locals = tgt.locals],
             L(kw, <<"let">> \o tgt.text \o <<"=", "&">> \o left.text
                   \o (IF chained THEN <<test.expr.op>> \o right.text ELSE <<>>)))

IfLetRight(s, kw, test, chained, left, tgt) ==
    IfLetLine(s, kw, test, chained, left, tgt,
        IF chained THEN VisitExpr(tgt.locals, test.expr.r) ELSE left)

IfLet(s, kw, test, chained) ==
    IfLetRight(s, kw, test, chained,
        VisitExpr(s.locals, IF chained THEN test.expr.l ELSE test.expr),
        VisitTarget(s.locals, TRUE, TRUE, test.target[1]))

\* `if *(&(expr) as &bool)`
IfPlain(s, kw, v) ==
    IF v.err # "" THEN Fail(Writeln(s, Unfinished(kw, <<"*(&(">>)), v.err)
    ELSE Writeln(s, L(kw, <<"*(&(">> \o v.text \o <<") as &bool)">>))

\* the condition of one branch
IfCond(s, cond, i) ==
    IF s.err # "" THEN s
    ELSE IF IsNone(cond.cond) THEN Writeln(s, L("else", <<>>))
    ELSE IF IsSome(cond.cond[1].target)
    THEN IfLet(s, IfKeyword(i), cond.cond[1],
             cond.cond[1].expr.k = "BinOp" /\ cond.cond[1].expr.op \in {"||", "&&"})
    ELSE IfPlain(s, IfKeyword(i), VisitExpr(s.locals, cond.cond[1].expr))

\* acc is [st, flushed, arm_sizes, has_else]
IfArmEnd(acc, flushed, is_else, h) ==
    [st |-> h.st, flushed |-> acc.flushed + flushed,
     arm_sizes |-> Append(acc.arm_sizes, h.sz), has_else |-> acc.has_else \/ is_else]

\* the body of a branch with a pop before the push of the first branch too
IfArmBodyPopFirst(E, c, cond, i, acc, f) ==
    IfArmEnd(acc, f.sz, IsNone(cond.cond),
        Handle(E, c, IfCond(Push(Pop(f.st)), cond, i), cond.nodes, "Nested"))

IfArmBody(E, c, cond, i, acc, f) ==
    IfArmEnd(acc, f.sz, IsNone(cond.cond),
        Handle(E, c, IfCond(Push(IF i > 1 THEN Pop(f.st) ELSE f.st), cond, i),
               cond.nodes, "Nested"))

\* one iteration of the loop over the branches
IfArm(E, c, cond, i, acc) ==
    IfArmBody(E, c, cond, i, acc, WriteBufWritable(HandleWs(E, acc.st, cond.ws)))

IfBranches(E, c, branches, i, acc) ==
    IF i > Len(branches) \/ acc.st.err # "" THEN acc
    ELSE IfBranches(E, c, branches, i + 1, IfArm(E, c, branches[i], i, acc))

WriteIfClose(b, f) ==
    R(Pop(Close(f.st)),
      b.flushed + f.sz + Median(IF b.has_else THEN b.arm_sizes ELSE Append(b.arm_sizes, 0)))

WriteIfEnd(E, n, b) ==
    IF b.st.err # "" THEN R(b.st, 0)
    ELSE WriteIfClose(b, WriteBufWritable(HandleWs(E, b.st, n.ws)))

WriteIf(E, c, s, n) ==
    WriteIfEnd(E, n, IfBranches(E, c, n.branches, 1,
                         [st |-> s, flushed |-> 0, arm_sizes |-> <<>>, has_else |-> FALSE]))

--------------------------------------------------------------------------
(* write_match *)
\* acc is [st, arm_size, arm_sizes]
MatchArmEnd(i, acc, flushed, h) ==
    [st |-> h.st, arm_size |-> h.sz,
     arm_sizes |-> IF i > 1 THEN Append(acc.arm_sizes, acc.arm_size + flushed)
                   ELSE acc.arm_sizes]

MatchArmTarget(s, arm) == WithTarget(s, VisitTarget(s.locals, TRUE, TRUE, arm.target), "arm")

MatchArmBody(E, c, arm, i, acc, f) ==
    MatchArmEnd(i, acc, f.sz,
        Handle(E, c, MatchArmTarget(Push(IF i > 1 THEN Pop(Close(f.st)) ELSE f.st), arm),
               arm.nodes, "Nested"))

\* one iteration of the loop over the arms
MatchArm(E, c, arm, i, acc) ==
    MatchArmBody(E, c, arm, i, acc,
        IF i > 1 THEN WriteBufWritable(HandleWs(E, acc.st, arm.ws))
        ELSE R(HandleWs(E, acc.st, arm.ws), 0))

MatchArms(E, c, arms, i, acc) ==
    IF i > Len(arms) \/ acc.st.err # "" THEN acc
    ELSE MatchArms(E, c, arms, i + 1, MatchArm(E, c, arms[i], i, acc))

MatchHead(s, v) ==
    IF v.err # "" THEN Fail(s, v.err) ELSE Writeln(s, L("match", v.text))

WriteMatchClose(flushed, a, g) ==
    R(Close(Pop(Close(g.st))), flushed + Median(Append(a.arm_sizes, a.arm_size + g.sz)))

WriteMatchEnd(E, n, flushed, a) ==
    IF a.st.err # "" THEN R(a.st, 0)
    ELSE WriteMatchClose(flushed, a, WriteBufWritable(HandleWs(E, a.st, n.ws2)))

WriteMatchArms(E, c, n, f) ==
    WriteMatchEnd(E, n, f.sz,
        MatchArms(E, c, n.arms, 1,
            [st |-> MatchHead(f.st, VisitExpr(f.st.locals, n.expr)),
             arm_size |-> 0, arm_sizes |-> <<>>]))

WriteMatch(E, c, s, n) == WriteMatchArms(E, c, n, WriteBufWritable(FlushWs(E, s, n.ws1)))

--------------------------------------------------------------------------
(* write_loop *)
\* the host expression that write_loop binds to _iter
IterCode(iter, text) ==
    CASE iter.k = "Call" -> <<"(">> \o text \o <<").into_iter()">>
      [] Len(text) > 1 /\ text[1] = "self" /\ text[2] = "." ->
            <<"(&">> \o text \o <<").into_iter()">>
      [] iter.k = "Attr" -> <<"(&">> \o text \o <<").into_iter()">>
      [] OTHER -> <<"(">> \o text \o <<").into_iter()">>

LoopOpen(s, n, v) ==
    Writeln(IF n.else_nodes # <<>>
            THEN Writeln(Writeln(s, L("block_open", <<>>)), L("did_loop_init", <<>>))
            ELSE Writeln(s, L("block_open", <<>>)),
            L("let_iter", IterCode(n.iter, v.text)))

LoopFilterLine(s, ft, fv) ==
    IF fv.err # ""
    THEN Fail(Writeln([s EXCEPT !.locals = ft.locals],
                  Unfinished("iter_filter", ft.text \o <<"|">> \o fv.text)),
              fv.err)
    ELSE Pop(Writeln([s EXCEPT !.locals = ft.locals],
                 L("iter_filter", ft.text \o <<"|">> \o fv.text)))

LoopFilterCond(s, n, ft) == LoopFilterLine(s, ft, VisitExpr(ft.locals, n.cond[1]))

\* the filter clause: push, the target, the predicate, pop
LoopFilter(s, n) ==
    IF IsNone(n.cond) \/ s.err # "" THEN s
    ELSE LoopFilterCond(s, n, VisitTarget(MapChainPush(s.locals), TRUE, TRUE, n.var))

\* the for statement without the assignment to the flag
LoopForOpenUnset(s, n) == WithTarget(s, VisitTarget(s.locals, TRUE, TRUE, n.var), "for_open")

LoopForOpen(s, n) ==
    IF n.else_nodes # <<>>
    THEN Writeln(WithTarget(s, VisitTarget(s.locals, TRUE, TRUE, n.var), "for_open"),
             L("did_loop_set", <<>>))
    ELSE WithTarget(s, VisitTarget(s.locals, TRUE, TRUE, n.var), "for_open")

\* handle_ws, the flush, pop and `}` that end a body; r is [st, sz]
PopClose(r) == R(Close(Pop(r.st)), r.sz)

LoopBodyEnd(E, r, ws) ==
    IF r.st.err # "" THEN r
    ELSE AddSz(PopClose(WriteBufWritable(HandleWs(E, r.st, ws))), r.sz)

WriteLoopClose(flushed, size_hint1, last) ==
    R(Close(last.st), flushed + ((size_hint1 * 3) + last.sz) \div 2)

\* b is [st, sz] with sz = size_hint1
WriteLoopElse(E, c, n, flushed, b) ==
    IF b.st.err # "" THEN b
    ELSE WriteLoopClose(flushed, b.sz,
             IF n.else_nodes # <<>>
             THEN LoopBodyEnd(E, Handle(E, c, Push(Writeln(b.st, L("if_not_did_loop", <<>>))),
                                        n.else_nodes, "Nested"),
                              n.ws3)
             ELSE WriteBufWritable(HandleWs(E, b.st, n.ws3)))

WriteLoopBody(E, c, n, v, f) ==
    WriteLoopElse(E, c, n, f.sz,
        LoopBodyEnd(E, Handle(E, c, LoopForOpen(Push(LoopFilter(LoopOpen(f.st, n, v), n)), n),
                              n.body, "Nested"),
                    n.ws2))

WriteLoopHead(E, c, n, s, v) ==
    IF v.err # "" THEN R(Fail(s, v.err), 0)
    ELSE WriteLoopBody(E, c, n, v, WriteBufWritable(s))

WriteLoopIter(E, c, n, s) == WriteLoopHead(E, c, n, s, VisitExpr(s.locals, n.iter))

WriteLoop(E, c, s, n) == WriteLoopIter(E, c, n, Push(HandleWs(E, s, n.ws1)))

--------------------------------------------------------------------------
(* write_filter_block *)
FilterBlockOpen(E, s, n) ==
    IF s.err # "" THEN s
    ELSE PrepareWs(E,
             Push(Writeln(Writeln(WriteBufWritable([FlushWs(E, s, n.ws1)
                                                    EXCEPT !.fdepth = @ + 1]).st,
                                  L("block_open", <<>>)),
                          L("fmt_cell_open", <<>>))),
             n.ws1)

\* the error of visit_filter for the filter of a filter block, whose only
\* argument is the source of the filter: "" if there is none (the
\* backquotes of the messages are written as apostrophes)
FilterFault(E, filter) ==
    CASE filter = "format" -> "use filter format like '\"a={} b={}\"|format(a, b)'"
      [] filter = "fmt" -> "use filter fmt like 'value|fmt(\"{:?}\")'"
      [] filter \in {"json", "tojson"} /\ "serde_json" \notin E.features ->
            "the 'json' filter requires the 'serde_json' feature to be enabled"
      [] OTHER -> ""

FilterBlockClose(E, s, n) ==
    IF s.err # "" THEN s
    ELSE IF FilterFault(E, n.filter) # ""
    THEN Fail(Writeln(s, L("fmt_cell_close", <<>>)), FilterFault(E, n.filter))
    ELSE PrepareWs(E, [Close(Writeln(Writeln(s, L("fmt_cell_close", <<>>)),
                                     L("filter_display", <<n.filter>>)))
                       EXCEPT !.fdepth = @ - 1],
                   n.ws2)

WriteFilterBlockEnd(E, n, h) ==
    IF h.st.err # "" THEN h
    ELSE R(FilterBlockClose(E, Pop(WriteBufWritable(FlushWs(E, h.st, n.ws2)).st), n), h.sz)

WriteFilterBlock(E, c, s, n) ==
    WriteFilterBlockEnd(E, n,
        Handle(E, c, FilterBlockOpen(E, WriteBufWritable(s).st, n), n.nodes, "Nested"))

--------------------------------------------------------------------------
(* handle_include *)
\* what the child generator leaves to the including one: the Buffer
Back(s, child) ==
    [s EXCEPT !.out = child.out, !.bdiscard = child.bdiscard, !.err = child.err]

IncludeReturn(E, n, s, size, g) == R(PrepareWs(E, Back(s, g.st), n.ws), size + g.sz)

IncludeEnd(E, n, s, h) ==
    IF h.st.err # "" THEN IncludeReturn(E, n, s, h.sz, h)
    ELSE IncludeReturn(E, n, s, h.sz, WriteBufWritable(h.st))

\* the child generator of an include created outside any filter block
IncludeChildUnfiltered(s, heritage) ==
    [GeneratorNew(heritage, MapChainWithParent(s.locals), s.bwdiscard, 0, s.out, s.bdiscard)
     EXCEPT !.stack = s.stack]

IncludeChild(s, heritage) ==
    [GeneratorNew(heritage, MapChainWithParent(s.locals), s.bwdiscard, s.fdepth,
         s.out, s.bdiscard)
     EXCEPT !.stack = s.stack]

IncludeRun(E, n, s, heritage, handle_ctx) ==
    IncludeEnd(E, n, s, Handle(E, handle_ctx, IncludeChild(s, heritage),
                               handle_ctx.nodes, "Top"))

IncludeHeritage(E, n, s, child_ctx, heritage) ==
    IncludeRun(E, n, s, heritage, IF IsSome(heritage) THEN heritage[1].root ELSE child_ctx)

IncludeContext(E, n, s, child_ctx) ==
    IncludeHeritage(E, n, s, child_ctx,
        IF child_ctx.blocks # {} \/ IsSome(child_ctx.extends)
        THEN Some(HeritageNew(child_ctx, E.contexts))
        ELSE NoneV)

\* Config::find_template: the error for a template that is in none of the
\* directories of the configuration, "" for one that is found
FindTemplate(config, path) ==
    IF path \in config.files THEN ""
    ELSE "template \"" \o path \o "\" not found in directories [\"" \o config.dirs[1] \o "\"]"

IncludeFind(E, c, n, s) ==
    CASE s.err # "" -> R(s, 0)
      [] s.err = "" /\ FindTemplate(E.input.config, n.path) # "" ->
            R(Fail(s, FindTemplate(E.input.config, n.path)), 0)
      [] s.err = "" /\ FindTemplate(E.input.config, n.path) = ""
                   /\ n.path \notin DOMAIN E.contexts ->
            R(Fail(s, "panic: no entry found for key"), 0)
      [] OTHER -> IncludeContext(E, n, s, MergeContext(E.contexts[n.path], c))

HandleInclude(E, c, s, n) == IncludeFind(E, c, n, WriteBufWritable(FlushWs(E, s, n.ws)).st)

--------------------------------------------------------------------------
(* write_block *)
HeritageHas(heritage, name) == \E b \in heritage.blocks : b.name = name
HeritageGet(heritage, name) == (CHOOSE b \in heritage.blocks : b.name = name).chain

\* the block and generation that write_block splices: cur
BlockTargetSame(name, super_block) ==
    IF IsSome(name) THEN <<name[1], 0>>
    ELSE <<super_block[1][1], super_block[1][2]>>

BlockTarget(name, super_block) ==
    IF IsSome(name) THEN <<name[1], 0>>
    ELSE <<super_block[1][1], super_block[1][2] + 1>>

\* block_fragment_write
BlockFragmentAny(block, name, discard) == discard

BlockFragmentWrite(block, name, discard) == block = name /\ discard

RestoreDiscard(s, prev_buf_discard, block_fragment_write) ==
    IF s.err # "" THEN s
    ELSE [s EXCEPT !.bwdiscard = IF block_fragment_write THEN TRUE ELSE @,
                   !.bdiscard = prev_buf_discard]

WriteBlockRestore(prev_buf_discard, block_fragment_write, size, s) ==
    R(RestoreDiscard(IF s.bdiscard # prev_buf_discard THEN WriteBufWritable(s).st ELSE s,
                     prev_buf_discard, block_fragment_write),
      size)

\* self.buf_writable = child.buf_writable, with the Buffer the child wrote
WriteBlockReturn(E, outer, prev_buf_discard, block_fragment_write, s, size, child) ==
    WriteBlockRestore(prev_buf_discard, block_fragment_write, size,
        PrepareWs(E, [s EXCEPT !.bw = child.bw, !.bwdiscard = child.bwdiscard,
                               !.out = child.out, !.bdiscard = child.bdiscard,
                               !.err = child.err],
                  outer))

\* `?` on the handle or the flush of the child: self.buf_writable is what
\* mem::take left, the child wrote to the Buffer
WriteBlockFailed(s, size, child) ==
    R([s EXCEPT !.bw = <<>>, !.bwdiscard = FALSE, !.out = child.out,
                !.bdiscard = child.bdiscard, !.err = child.err],
      size)

WriteBlockFlush(E, outer, prev_buf_discard, block_fragment_write, s, def, size, child) ==
    IF child.err # "" THEN WriteBlockFailed(s, size, child)
    ELSE WriteBlockReturn(E, outer, prev_buf_discard, block_fragment_write, s, size,
             FlushWs(E, child, def.ws2))

WriteBlockEnd(E, outer, prev_buf_discard, block_fragment_write, s, def, h) ==
    WriteBlockFlush(E, outer, prev_buf_discard, block_fragment_write, s, def, h.sz,
        IF h.st.err = "" /\ ~IsCurrentEmpty(h.st.locals) THEN WriteBufWritable(h.st).st
        ELSE h.st)

BlockChild(E, s, cur, def) ==
    PrepareWs(E, [GeneratorNew(s.heritage, MapChainDefault, s.bwdiscard, s.fdepth,
                      s.out, s.bdiscard)
                  EXCEPT !.bw = s.bw, !.super_block = Some(cur), !.stack = s.stack],
              def.ws1)

\* the error of the lookup of the block in the heritage, "" if there is none
BlockLookupFault(s, name, cur) ==
    IF IsNone(s.heritage) THEN "no block ancestors available"
    ELSE IF ~HeritageHas(s.heritage[1], cur[1]) THEN "panic: heritage.blocks"
    ELSE IF cur[2] + 1 > Len(HeritageGet(s.heritage[1], cur[1]))
    THEN (IF IsNone(name) THEN "no super() block found" ELSE "no block found")
    ELSE ""

\* heritage.blocks[cur.0].get(cur.1): [def, ctx]
BlockEntry(s, cur) == HeritageGet(s.heritage[1], cur[1])[cur[2] + 1]

\* the discard flags while the block is written
BlockDiscard(s, block_fragment_write) ==
    [s EXCEPT !.bwdiscard = IF block_fragment_write THEN FALSE ELSE @,
              !.bdiscard = IF block_fragment_write THEN FALSE ELSE s.bwdiscard]

\* the child generator, its handle and the return to the parent
WriteBlockChild(E, c, outer, cur, prev_buf_discard, block_fragment_write, s, entry) ==
    WriteBlockEnd(E, outer, prev_buf_discard, block_fragment_write, s, entry.def,
        Handle(E, MergeContext(entry.ctx, c), BlockChild(E, s, cur, entry.def),
               entry.def.nodes, "Block"))

\* write_block after the flush of the pending writes
WriteBlockFlushed(E, c, name, outer, cur, s) ==
    CASE s.err # "" -> R(s, 0)
      [] s.err = "" /\ BlockLookupFault(s, name, cur) # "" ->
         R(Fail(BlockDiscard(s, BlockFragmentWrite(E.input.block, name, s.bwdiscard)),
                BlockLookupFault(s, name, cur)), 0)
      [] OTHER ->
         WriteBlockChild(E, c, outer, cur, s.bdiscard,
             BlockFragmentWrite(E.input.block, name, s.bwdiscard),
             BlockDiscard(s, BlockFragmentWrite(E.input.block, name, s.bwdiscard)),
             BlockEntry(s, cur))

\* a definition inside a block is taken for recursive whatever its name
IsRecursiveBlockAny(name, super_block) == IsSome(name) /\ IsSome(super_block)

\* the arm (Some(cur_name), Some((prev_name, _))) if cur_name == prev_name
IsRecursiveBlock(name, super_block) ==
    IsSome(name) /\ IsSome(super_block) /\ name[1] = super_block[1][1]

\* the error of the match on (name, super_block), "" if there is none
BlockFault(name, super_block) ==
    IF IsRecursiveBlock(name, super_block) THEN "cannot define recursive blocks"
    ELSE IF IsNone(name) /\ IsNone(super_block) THEN "cannot call 'super()' outside block"
    ELSE ""

\* write_block; name is Some for a block definition, None for super()
WriteBlock(E, c, s, name, outer) ==
    CASE s.err # "" -> R(s, 0)
      [] s.err = "" /\ s.fdepth > 0 ->
         R(Fail(s, "cannot have a block inside a filter block"), 0)
      [] s.err = "" /\ s.fdepth <= 0 /\ BlockFault(name, s.super_block) # "" ->
         R(Fail(FlushWs(E, s, outer), BlockFault(name, s.super_block)), 0)
      [] OTHER ->
         WriteBlockFlushed(E, c, name, outer, BlockTarget(name, s.super_block),
             WriteBufWritable(FlushWs(E, s, outer)).st)

--------------------------------------------------------------------------
(* write_call *)
NoMacro(msg) == [err |-> msg, def |-> <<>>, ctx |-> <<>>]

\* the lookup of the macro: [err, def, ctx]
LookupMacroUnscoped(E, c, scope, name) ==
    IF ~HasNamed(c.macros, name) THEN NoMacro("macro not found")
    ELSE [err |-> "", def |-> GetNamed(c.macros, name), ctx |-> c]

LookupMacro(E, c, scope, name) ==
    IF IsSome(scope)
    THEN IF ~HasImport(c.imports, scope[1]) THEN NoMacro("no import found for scope")
         ELSE IF GetImport(c.imports, scope[1]) \notin DOMAIN E.contexts
         THEN NoMacro("context not found")
         ELSE IF ~HasNamed(E.contexts[GetImport(c.imports, scope[1])].macros, name)
         THEN NoMacro("macro not found in scope")
         ELSE [err |-> "",
               def |-> GetNamed(E.contexts[GetImport(c.imports, scope[1])].macros, name),
               ctx |-> E.contexts[GetImport(c.imports, scope[1])]]
    ELSE IF ~HasNamed(c.macros, name) THEN NoMacro("macro not found")
    ELSE [err |-> "", def |-> GetNamed(c.macros, name), ctx |-> c]

\* the test on the number of arguments
ArgCountAtLeast(args, def_args) == Len(args) > Len(def_args)

ArgCountMismatch(args, def_args) == Len(args) # Len(def_args)

\* named_arguments: the NamedArgument expressions from the last argument
\* backwards, up to the first argument that is not one
RECURSIVE NamedArguments(_)
NamedArguments(args) ==
    IF args = <<>> \/ args[Len(args)].k # "Named" THEN <<>>
    ELSE Append(NamedArguments(SubSeq(args, 1, Len(args) - 1)), args[Len(args)])

IsNamedArg(named, arg) == \E i \in 1..Len(named) : named[i].n = arg

\* named_arguments.get with the argument that stands last in the call
\* whatever its name
GetNamedArgLast(named, arg) == named[Len(named)]

\* HashMap::insert while iterating the run in reverse keeps, for a name
\* given twice, the first argument of the run that has this name
GetNamedArg(named, arg) ==
    named[CHOOSE i \in 1..Len(named) :
              /\ named[i].n = arg
              /\ \A j \in 1..(i - 1) : named[j].n # arg]

\* the match on the argument expression; acc is
\* [locals, names, values, allow_positional, err]
BindExpr(acc, arg, expr, v) ==
    CASE expr.k = "Var" /\ expr.n # "self" ->
            [acc EXCEPT !.locals = MapChainInsert(@,
                            LocalMetaWithRef(arg, ResolveOrSelf(acc.locals, expr.n)))]
      [] expr.k = "Attr" ->
            IF v.err # "" THEN [acc EXCEPT !.err = v.err]
            ELSE [acc EXCEPT !.locals = MapChainInsert(@, LocalMetaWithRef(arg, v.text))]
      [] OTHER ->
            IF v.err # "" THEN [acc EXCEPT !.err = v.err]
            ELSE [acc EXCEPT !.names = Append(@, arg),
                             !.values = Append(@, [borrow |-> ~IsCopyable(expr),
                                                   text |-> v.text]),
                             !.locals = MapChainInsert(@, LocalMetaDefault(arg))]

BindVisit(acc, arg, expr) == BindExpr(acc, arg, expr, VisitExpr(acc.locals, expr))

\* one iteration of the loop over def.args without the test of
\* allow_positional
BindArgPositional(arg, args, named, index, acc) ==
    IF IsNamedArg(named, arg)
    THEN BindVisit([acc EXCEPT !.allow_positional = FALSE], arg, GetNamedArg(named, arg))
    ELSE IF index > Len(args) THEN [acc EXCEPT !.err = "panic: args index"]
    ELSE BindVisit(acc, arg, args[index])

\* one iteration of the loop over def.args
BindArg(arg, args, named, index, acc) ==
    IF IsNamedArg(named, arg)
    THEN BindVisit([acc EXCEPT !.allow_positional = FALSE], arg, GetNamedArg(named, arg))
    ELSE IF ~acc.allow_positional
    THEN [acc EXCEPT !.err = "cannot have unnamed argument after named argument"]
    ELSE IF index > Len(args) THEN [acc EXCEPT !.err = "panic: args index"]
    ELSE BindVisit(acc, arg, args[index])

RECURSIVE BindArgs(_, _, _, _, _)
BindArgs(def_args, args, named, index, acc) ==
    IF index > Len(def_args) \/ acc.err # "" THEN acc
    ELSE BindArgs(def_args, args, named, index + 1,
             BindArg(def_args[index], args, named, index, acc))

WriteCallClose(E, n, size, g) == R(PrepareWs(E, Pop(Close(g.st)), n.ws), size + g.sz)

WriteCallEnd(E, n, def, h) ==
    IF h.st.err # "" THEN h
    ELSE WriteCallClose(E, n, h.sz, WriteBufWritable(FlushWs(E, h.st, def.ws2)))

LetTuple(s, b) ==
    IF b.names # <<>>
    THEN Writeln([s EXCEPT !.locals = b.locals],
             [op |-> "let_tuple", names |-> b.names, values |-> b.values])
    ELSE [s EXCEPT !.locals = b.locals]

WriteCallBody(E, n, def, own_ctx, s, b) ==
    IF b.err # "" THEN R(Fail([s EXCEPT !.locals = b.locals], b.err), 0)
    ELSE WriteCallEnd(E, n, def, Handle(E, own_ctx, LetTuple(s, b), def.nodes, "Nested"))

WriteCallArgs(E, n, def, own_ctx, s) ==
    IF s.err # "" THEN R(s, 0)
    ELSE IF ArgCountMismatch(n.args, def.args)
    THEN R(Fail(s, "macro expected a different number of arguments"), 0)
    ELSE IF \E i \in 1..Len(NamedArguments(n.args)) :
                NamedArguments(n.args)[i].n \notin SeqToSet(def.args)
    THEN R(Fail(s, "no argument with this name in macro"), 0)
    ELSE WriteCallBody(E, n, def, own_ctx, s,
             BindArgs(def.args, n.args, NamedArguments(n.args), 1,
                 [locals |-> s.locals, names |-> <<>>, values |-> <<>>,
                  allow_positional |-> TRUE, err |-> ""]))

WriteCallDef(E, s, n, m) ==
    IF m.err # "" THEN R(Fail(s, m.err), 0)
    ELSE WriteCallArgs(E, n, m.def, m.ctx,
             PrepareWs(E, Writeln(WriteBufWritable(Push(FlushWs(E, s, n.ws))).st,
                                  L("block_open", <<>>)),
                       m.def.ws1))

WriteCall(E, c, s, n) ==
    IF n.name = "super" THEN WriteBlock(E, c, s, NoneV, n.ws)
    ELSE WriteCallDef(E, s, n, LookupMacro(E, c, n.scope, n.name))

--------------------------------------------------------------------------
(* handle *)
\* What decides where a call of handle leads: its arguments and the
\* generator without the code written so far, the counter of the named
\* expressions and the variables in scope; of the filter-block depth only
\* whether it is zero.  The number of scopes, which decides whether a pop
\* panics, is kept beside it.
HandleFrame(c, s, nodes, level) ==
    [ctx |-> c, nodes |-> nodes, level |-> level,
     gen |-> [s EXCEPT !.out = <<>>, !.stack = <<>>, !.named = 0,
                       !.locals = MapChainDefault,
                       !.fdepth = IF @ > 0 THEN 1 ELSE 0],
     scopes |-> Len(s.locals.scopes)]

\* The call of handle is inside a call that it repeats, with no fewer
\* scopes: the calls nest without end and the code exhausts the call stack.
Recurs(stack, f) ==
    \E i \in 1..Len(stack) :
        /\ [stack[i] EXCEPT !.scopes = 0] = [f EXCEPT !.scopes = 0]
        /\ stack[i].scopes <= f.scopes

\* handle; s.stack holds the calls of handle on the call stack
HandleDo(E, c, s, nodes, level) ==
    CASE s.err # "" -> R(s, 0)
      [] s.err = "" /\ Recurs(s.stack, HandleFrame(c, s, nodes, level)) ->
         R(Fail(s, "stack overflow"), 0)
      [] OTHER ->
         HandleEnd(E, HandleLoop(E, c,
                          R([s EXCEPT !.stack = Append(@, HandleFrame(c, s, nodes, level))], 0),
                          0, nodes, level),
                   level, s.stack)

\* the loop of handle; h is [st, sz] of the node before and size the local
\* size_hint before it
HandleLoop(E, c, h, size, nodes, level) ==
    IF nodes = <<>> \/ h.st.err # "" THEN R(h.st, size + h.sz)
    ELSE HandleLoop(E, c, HandleNode(E, c, h.st, Head(nodes), level), size + h.sz,
                    Tail(nodes), level)

\* the match of handle on one node
HandleNodeDo(E, c, s, n, level) ==
    CASE n.k = "Lit" -> R(VisitLit(s, n), 0)
      [] n.k = "Comment" -> R(WriteComment(E, s, n), 0)
      [] n.k = "Expr" -> R(WriteExpr(E, s, n), 0)
      [] n.k = "Let" -> R(WriteLet(E, s, n), 0)
      [] n.k = "If" -> WriteIf(E, c, s, n)
      [] n.k = "Match" -> WriteMatch(E, c, s, n)
      [] n.k = "Loop" -> WriteLoop(E, c, s, n)
      [] n.k = "BlockDef" -> WriteBlock(E, c, s, Some(n.name), <<n.ws1[1], n.ws2[2]>>)
      [] n.k = "Include" -> HandleInclude(E, c, s, n)
      [] n.k = "Call" -> WriteCall(E, c, s, n)
      [] n.k = "FilterBlock" -> WriteFilterBlock(E, c, s, n)
      [] n.k = "Macro" -> R(HandleMacro(E, s, n, level), 0)
      [] n.k = "Raw" -> R(HandleRaw(E, s, n), 0)
      [] n.k = "Import" -> R(HandleImport(E, s, n, level), 0)
      [] n.k = "Extends" -> R(HandleExtends(s, level), 0)
      [] n.k = "Break" -> R(HandleBreak(E, s, n), 0)
      [] n.k = "Continue" -> R(HandleContinue(E, s, n), 0)

\* the single entry of the mutual recursion of the handlers
Dispatch(op, E, c, s, a) ==
    CASE op = "write_buf_writable" -> WriteBufWritableDo(s)
      [] op = "handle" -> HandleDo(E, c, s, a.nodes, a.level)
      [] op = "node" -> HandleNodeDo(E, c, s, a.n, a.level)

--------------------------------------------------------------------------
(* The walk of one template: impl_template and the loop of handle at level *)
(* Top, one node per step.                                                 *)
Env == [input |-> input, contexts |-> contexts, features |-> features]

\* the paths of the model in sorted order
PathOrder ==
    <<"base.html", "child.html", "empty.html", "inc.html", "lib.html", "mid.html", "root.html",
      "sup.html">>

\* the head of impl_template, up to the call of handle
FileDeps(E) ==
    SelectSeq(PathOrder,
        LAMBDA q : q \in DOMAIN E.contexts /\ (E.input.source = "Path" \/ q # E.input.path))

RECURSIVE WriteLines(_, _)
WriteLines(s, lines) ==
    IF lines = <<>> THEN s ELSE WriteLines(Writeln(s, Head(lines)), Tail(lines))

ImplTemplateHead(E, s) ==
    WriteLines([WriteLines(s, <<L("impl_template", <<>>), L("fn_render_into", <<>>),
                               L("use_auto_escape", <<>>), L("use_fmt_write", <<>>)>>)
                EXCEPT !.bdiscard = s.bwdiscard],
        [i \in 1..Len(FileDeps(E)) |-> L("include_bytes", <<FileDeps(E)[i]>>)])

\* the tail of impl_template, after handle returned size_hint
ImplTemplateTail(E, s, size) ==
    WriteLines(FlushWs(E, [s EXCEPT !.bdiscard = FALSE], NoWs),
        <<L("ok", <<>>), L("close", <<>>), L("const_extension", <<>>),
          L("const_size_hint", <<ToString(size)>>), L("const_mime_type", <<>>),
          L("close", <<>>)>>)

\* impl_display
ImplDisplay(s) ==
    WriteLines(s, <<L("impl_display", <<>>), L("inline", <<>>), L("fn_fmt", <<>>),
                    L("render_into_map_err", <<>>), L("close", <<>>), L("close", <<>>)>>)

\* impl_actix_web_responder
ImplActixWebResponder(s) ==
    WriteLines(s, <<L("impl_actix_web_responder", <<>>), L("type_body", <<>>),
                    L("inline", <<>>), L("fn_respond_to", <<>>),
                    L("rinja_actix_into_response", <<>>), L("close", <<>>),
                    L("close", <<>>)>>)

\* impl_axum_into_response
ImplAxumIntoResponse(s) ==
    WriteLines(s, <<L("impl_axum_into_response", <<>>), L("inline", <<>>),
                    L("fn_into_response", <<>>), L("rinja_axum_into_response", <<>>),
                    L("close", <<>>), L("close", <<>>)>>)

\* impl_rocket_responder
ImplRocketResponder(s) ==
    WriteLines(s, <<L("impl_rocket_responder", <<>>), L("inline", <<>>),
                    L("fn_respond_to", <<>>), L("rinja_rocket_respond", <<>>),
                    L("close", <<>>), L("close", <<>>)>>)

\* impl_warp_reply
ImplWarpReply(s) ==
    WriteLines(s, <<L("impl_warp_reply", <<>>), L("inline", <<>>),
                    L("fn_into_response", <<>>), L("rinja_warp_into_response", <<>>),
                    L("close", <<>>), L("close", <<>>)>>)

\* a responder that is compiled only with its feature
WithFeature(E, feature, written, s) == IF feature \in E.features THEN written ELSE s

\* build, after impl_template returned: the Display impl and the
\* responders of the features the crate is built with
BuildTail(E, s) ==
    LET d == ImplDisplay(s)
        a == WithFeature(E, "with-actix-web", ImplActixWebResponder(d), d)
        x == WithFeature(E, "with-axum", ImplAxumIntoResponse(a), a)
        r == WithFeature(E, "with-rocket", ImplRocketResponder(x), x)
    IN WithFeature(E, "with-warp", ImplWarpReply(r), r)

Nodes == ctx.nodes

Begin ==
    /\ phase = "new"
    /\ st' = [ImplTemplateHead(Env, st)
              EXCEPT !.stack = <<HandleFrame(ctx, ImplTemplateHead(Env, st), Nodes, "Top")>>]
    /\ phase' = "walk"
    /\ UNCHANGED <<input, contexts, ctx, pc, size_hint, features, conv>>

\* one iteration of the loop of handle at level Top: the node at pc has
\* kind `kind`
At(kind) ==
    /\ phase = "walk"
    /\ pc <= Len(Nodes)
    /\ Nodes[pc].k = kind

\* r is what the handler of the node at pc returns
Step(r) ==
    /\ st' = r.st
    /\ IF Ok(r.st)
       THEN pc' = pc + 1 /\ phase' = "walk" /\ size_hint' = size_hint + r.sz
       ELSE pc' = pc /\ phase' = "error" /\ size_hint' = size_hint
    /\ UNCHANGED <<input, contexts, ctx, features, conv>>

Node == Nodes[pc]

StepLit ==
    /\ At("Lit")
    /\ Step(R(VisitLit(st, Node), 0))

StepComment ==
    /\ At("Comment")
    /\ Step(R(WriteComment(Env, st, Node), 0))

StepExpr ==
    /\ At("Expr")
    /\ Step(R(WriteExpr(Env, st, Node), 0))

StepLet ==
    /\ At("Let")
    /\ Step(HandleNode(Env, ctx, st, Node, "Top"))

StepIf ==
    /\ At("If")
    /\ Step(HandleNode(Env, ctx, st, Node, "Top"))

StepMatch ==
    /\ At("Match")
    /\ Step(HandleNode(Env, ctx, st, Node, "Top"))

StepLoop ==
    /\ At("Loop")
    /\ Step(HandleNode(Env, ctx, st, Node, "Top"))

StepBlockDef ==
    /\ At("BlockDef")
    /\ Step(HandleNode(Env, ctx, st, Node, "Top"))

StepInclude ==
    /\ At("Include")
    /\ Step(HandleNode(Env, ctx, st, Node, "Top"))

StepCall ==
    /\ At("Call")
    /\ Step(HandleNode(Env, ctx, st, Node, "Top"))

StepFilterBlock ==
    /\ At("FilterBlock")
    /\ Step(HandleNode(Env, ctx, st, Node, "Top"))

StepMacro ==
    /\ At("Macro")
    /\ Step(R(HandleMacro(Env, st, Node, "Top"), 0))

StepRaw ==
    /\ At("Raw")
    /\ Step(R(HandleRaw(Env, st, Node), 0))

StepImport ==
    /\ At("Import")
    /\ Step(R(HandleImport(Env, st, Node, "Top"), 0))

StepBreak ==
    /\ At("Break")
    /\ Step(HandleNode(Env, ctx, st, Node, "Top"))

StepContinue ==
    /\ At("Continue")
    /\ Step(HandleNode(Env, ctx, st, Node, "Top"))

\* the end of handle at level Top, the rest of impl_template and the rest
\* of build
EndOf(r) ==
    /\ size_hint' = r.sz
    /\ IF Ok(r.st)
       THEN st' = BuildTail(Env, ImplTemplateTail(Env, r.st, r.sz)) /\ phase' = "done"
       ELSE st' = r.st /\ phase' = "error"

End ==
    /\ phase = "walk"
    /\ pc = Len(Nodes) + 1
    /\ EndOf(HandleTail(Env, st, "Top", size_hint))
    /\ pc' = 0
    /\ UNCHANGED <<input, contexts, ctx, features, conv>>

\* the driver: the generator starts in discard mode when a block is selected
NewGenerator(inp, heritage) ==
    GeneratorNew(heritage, MapChainDefault, IsSome(inp.block), 0, <<>>, FALSE)

\* the blocks a context declares: the BlockDef nodes among its nodes and in
\* the bodies of its blocks, if branches, loops and match arms
RECURSIVE BlocksOf(_)
BlocksOf(nodes) ==
    IF nodes = <<>> THEN {}
    ELSE LET n == Head(nodes)
         IN (CASE n.k = "BlockDef" -> {n} \cup BlocksOf(n.nodes)
               [] n.k = "If" ->
                     UNION {BlocksOf(n.branches[i].nodes) : i \in 1..Len(n.branches)}
               [] n.k = "Loop" -> BlocksOf(n.body) \cup BlocksOf(n.else_nodes)
               [] n.k = "Match" -> UNION {BlocksOf(n.arms[i].nodes) : i \in 1..Len(n.arms)}
               [] OTHER -> {})
            \cup BlocksOf(Tail(nodes))

MacrosOf(nodes) == {nodes[i] : i \in {j \in 1..Len(nodes) : nodes[j].k = "Macro"}}

\* the template that the extends node at the top level of the nodes names
ExtendsOf(nodes) ==
    LET at == {i \in 1..Len(nodes) : nodes[i].k = "Extends"}
    IN IF at = {} THEN NoneV ELSE Some(nodes[CHOOSE i \in at : TRUE].path)

\* Context::new returns an error for a second extends node at the top level
OneExtends(nodes) == Cardinality({i \in 1..Len(nodes) : nodes[i].k = "Extends"}) <= 1

Context(path, nodes, macros, imports) ==
    [path |-> path, nodes |-> nodes, macros |-> macros \cup MacrosOf(nodes),
     imports |-> imports, blocks |-> BlocksOf(nodes), extends |-> ExtendsOf(nodes)]

RECURSIVE SeqsUpTo(_, _)
SeqsUpTo(S, n) ==
    IF n = 0 THEN {<<>>}
    ELSE LET shorter == SeqsUpTo(S, n - 1)
         IN shorter \cup {Append(q, x) : q \in shorter, x \in S}

InitBuilt(inp, cs, root, enabled) ==
    /\ features = enabled
    /\ input = inp
    /\ contexts = cs
    /\ LET heritage == IF root.blocks # {} \/ IsSome(root.extends)
                       THEN Some(HeritageNew(root, cs)) ELSE NoneV
       IN /\ ctx = IF IsSome(heritage) THEN heritage[1].root ELSE root
          /\ st = NewGenerator(inp, heritage)
    /\ pc = 1
    /\ size_hint = 0
    /\ phase = "new"

\* a build without any feature
InitWith(inp, cs, root) == InitBuilt(inp, cs, root, {})

-------------------------------------------------------------------------------------------------------------------------------------------
(* The templates of the model *)
MaxNodes == 2
MaxArgs == 3

Ch(c) == <<c>>
X == Var("x")
Policies == {"Preserve", "Suppress", "Minimize"}

\* the configuration: the template directory and the files in it; the
\* templates of the model are, late.html is a file that was not parsed
ConfigDefault ==
    [dirs |-> <<"templates">>,
     files |-> {"base.html", "child.html", "empty.html", "inc.html", "lib.html", "mid.html",
                "root.html", "sup.html", "late.html"}]

TemplateInput(w, block, path) ==
    [whitespace |-> w, block |-> block, source |-> "Path", path |-> path,
     config |-> ConfigDefault]

\* a template given as inline source: `path` is its synthetic path
InlineInput(w, block, path) ==
    [whitespace |-> w, block |-> block, source |-> "Source", path |-> path,
     config |-> ConfigDefault]

\* {% macro m(p) %}m{{ p }}{% endmacro %}
MacroM == MacroN("m", NoWs, <<"p">>, <<Lit(<<>>, Ch("m"), <<>>), ExprN(NoWs, Var("p"))>>, NoWs)

\* {% macro g(x, y) %}{{ x }}-{{ y }}{% endmacro %}
MacroG ==
    MacroN("g", NoWs, <<"x", "y">>,
        <<ExprN(NoWs, Var("x")), Lit(<<>>, Ch("-"), <<>>), ExprN(NoWs, Var("y"))>>, NoWs)

\* lib.html: {% macro lm(p) %}{{ p }}{% endmacro %}
MacroLm == MacroN("lm", NoWs, <<"p">>, <<ExprN(NoWs, Var("p"))>>, NoWs)

IncContext ==
    Context("inc.html", <<Lit(<<>>, Ch("i"), <<>>), ExprN(NoWs, X)>>, {}, {})

(* templates over every node kind *)
MainNodes ==
    {Lit(<<>>, Ch("a"), <<SPC>>),
     Lit(<<NL, SPC>>, Ch("b"), <<>>),
     Comment(NoWs),
     ExprN(NoWs, X),
     ExprN(NoWs, CallE(Var("f"), <<>>)),
     LetN(NoWs, TName("x"), NoneV),
     LetN(NoWs, TName("x"), Some(Num("1"))),
     IfN(<<Cond(NoWs, Some(CondTest(NoneV, X)), <<Lit(<<>>, Ch("c"), <<>>)>>)>>, NoWs),
     IfN(<<Cond(NoWs, Some(CondTest(Some(TName("y")), X)), <<ExprN(NoWs, Var("y"))>>),
           Cond(NoWs, NoneV, <<Lit(<<>>, <<"d", "d">>, <<>>)>>)>>, NoWs),
     MatchN(NoWs, X, <<When(NoWs, TName("y"), <<Lit(<<>>, Ch("e"), <<>>)>>),
                       When(NoWs, TPlaceholder, <<>>)>>, NoWs),
     LoopN(NoWs, TName("y"), X, NoneV, <<ExprN(NoWs, Var("y"))>>, NoWs, <<>>, NoWs),
     LoopN(NoWs, TName("y"), X, Some(Var("y")), <<Lit(<<>>, Ch("g"), <<>>)>>, NoWs,
           <<Lit(<<>>, Ch("h"), <<>>)>>, NoWs),
     BlockDef("b", NoWs, NoWs, <<Lit(<<>>, Ch("k"), <<>>), ExprN(NoWs, X)>>),
     IncludeN(NoWs, "inc.html"),
     IncludeN(NoWs, "empty.html"),
     CallN(NoWs, NoneV, "m", <<Num("1")>>),
     FilterBlockN(NoWs, "upper", <<Lit(<<>>, Ch("u"), <<>>)>>, NoWs),
     MacroM,
     RawN(NoWs, Lit(<<>>, Ch("r"), <<>>), NoWs),
     ImportN(NoWs),
     ExtendsN("base.html"),
     BreakN(NoWs),
     ContinueN(NoWs)}

\* base.html: A{% block b %}k{% endblock %} B
BaseContext ==
    Context("base.html",
        <<Lit(<<>>, Ch("A"), <<>>), BlockDef("b", NoWs, NoWs, <<Lit(<<>>, Ch("k"), <<>>)>>),
          Lit(<<SPC>>, Ch("B"), <<>>)>>, {}, {})

MainContexts(root) ==
    [q \in {"root.html", "inc.html", "empty.html", "base.html"} |->
        CASE q = "root.html" -> root
          [] q = "inc.html" -> IncContext
          [] q = "empty.html" -> Context("empty.html", <<>>, {}, {})
          [] q = "base.html" -> BaseContext]

InitMain ==
    \E w \in Policies, nodes \in {q \in SeqsUpTo(MainNodes, MaxNodes) : OneExtends(q)} :
        LET root == Context("root.html", nodes, {MacroM}, {})
        IN InitWith(TemplateInput(w, NoneV, "root.html"), MainContexts(root), root)

(* one macro call: every target and every argument list up to MaxArgs *)
CallTargets ==
    {<<NoneV, "g">>, <<NoneV, "m">>, <<NoneV, "zz">>, <<Some("lib"), "lm">>,
     <<Some("lib"), "g">>, <<Some("nope"), "g">>, <<Some("gone"), "lm">>}

CallArgExprs ==
    {Num("1"), Num("2"), Named("x", Num("5")), Named("y", Num("7")), Named("z", Num("9"))}

\* the argument lists the parser passes on: named arguments stand last and
\* no name is passed twice
NamedLast(args) ==
    \A i \in 1..Len(args), j \in 1..Len(args) :
        (i < j /\ args[i].k = "Named") => args[j].k = "Named"

NamesOnce(args) ==
    \A i \in 1..Len(args), j \in 1..Len(args) :
        (i # j /\ args[i].k = "Named" /\ args[j].k = "Named") => args[i].n # args[j].n

CallArgs == {args \in SeqsUpTo(CallArgExprs, MaxArgs) : NamedLast(args) /\ NamesOnce(args)}

CallImports == {[alias |-> "lib", path |-> "lib.html"], [alias |-> "gone", path |-> "gone.html"]}

CallContexts(root) ==
    [q \in {"root.html", "lib.html"} |->
        IF q = "root.html" THEN root
        ELSE Context("lib.html", <<MacroLm>>, {}, {})]

InitCall ==
    \E t \in CallTargets, args \in CallArgs :
        LET root == Context("root.html", <<MacroG, MacroM, CallN(NoWs, t[1], t[2], args)>>,
                            {}, CallImports)
        IN InitWith(TemplateInput("Preserve", NoneV, "root.html"), CallContexts(root), root)

(* inheritance: child.html extends mid.html extends base.html, each with  *)
(* its own body of block b                                                 *)
Super == CallN(NoWs, NoneV, "super", <<>>)

BodiesOf(chars) ==
    {<<Lit(<<>>, chars, <<>>)>>,
     <<Super, Lit(<<>>, chars, <<>>)>>,
     <<Lit(<<>>, chars, <<>>), Super>>}

BlockB(body) == BlockDef("b", NoWs, NoWs, body)

ChainContexts(child_body, mid_nodes, base_body) ==
    [q \in {"child.html", "mid.html", "base.html"} |->
        CASE q = "child.html" ->
                Context(q, <<ExtendsN("mid.html"), BlockB(child_body)>>, {}, {})
          [] q = "mid.html" -> Context(q, <<ExtendsN("base.html")>> \o mid_nodes, {}, {})
          [] q = "base.html" ->
                Context(q, <<Lit(<<>>, <<"A", "[">>, <<>>), BlockB(base_body),
                             Lit(<<>>, <<"]", "B">>, <<>>)>>, {}, {})]

InitChain ==
    \E child_body \in BodiesOf(<<"+", "c">>),
       mid_nodes \in {<<>>} \cup {<<BlockB(body)>> : body \in BodiesOf(<<"+", "m">>)},
       base_body \in BodiesOf(<<"b", "a", "s", "e">>),
       path \in {"child.html", "mid.html", "base.html"},
       block \in {NoneV, Some("b")} :
        LET cs == ChainContexts(child_body, mid_nodes, base_body)
        IN \/ InitWith(TemplateInput("Preserve", block, path), cs, cs[path])
           \/ InitWith(InlineInput("Preserve", block, path), cs, cs[path])

(* one block b, somewhere in a template, with text, interpolations, a let *)
(* or another block before and after it                                    *)
Around ==
    {<<>>,
     <<Lit(<<>>, Ch("o"), <<SPC>>)>>,
     <<ExprN(NoWs, Var("ov"))>>,
     <<LetN(NoWs, TName("x"), Some(Num("1")))>>,
     <<BlockDef("c", NoWs, NoWs, <<Lit(<<>>, Ch("p"), <<>>), ExprN(NoWs, Var("ov"))>>)>>}

FragBodies ==
    {<<Lit(<<>>, Ch("I"), <<>>), ExprN(NoWs, X)>>,
     <<ExprN(NoWs, X), Lit(<<>>, Ch("I"), <<SPC>>)>>,
     <<Lit(<<>>, Ch("I"), <<>>), BlockDef("e", NoWs, NoWs, <<Lit(<<>>, Ch("J"), <<>>)>>),
       Lit(<<>>, Ch("K"), <<>>)>>,
     <<LetN(NoWs, TName("y"), Some(Num("2"))), ExprN(NoWs, Var("y"))>>,
     <<CallN(NoWs, NoneV, "m", <<Num("1")>>)>>,
     <<IncludeN(NoWs, "inc.html")>>}

FragPlaces(body) ==
    {<<BlockB(body)>>,
     <<BlockDef("d", NoWs, NoWs,
           <<Lit(<<>>, Ch("o"), <<>>), BlockB(body), Lit(<<>>, Ch("o"), <<>>)>>)>>,
     <<IfN(<<Cond(NoWs, Some(CondTest(NoneV, Var("ov"))),
                  <<Lit(<<>>, Ch("o"), <<>>), BlockB(body), Lit(<<>>, Ch("o"), <<>>)>>)>>,
           NoWs)>>,
     <<LoopN(NoWs, TName("ov"), Var("ovs"), NoneV, <<BlockB(body)>>, NoWs, <<>>, NoWs)>>}

FragContexts(root) ==
    [q \in {"root.html", "inc.html"} |-> IF q = "root.html" THEN root ELSE IncContext]

InitFrag ==
    \E w \in Policies, block \in {NoneV, Some("b")}, before \in Around, after \in Around,
       body \in FragBodies :
        \E place \in FragPlaces(body) :
            LET root == Context("root.html", before \o place \o after, {MacroM}, {})
            IN InitWith(TemplateInput(w, block, "root.html"), FragContexts(root), root)

(* whitespace: a literal between two tags, every mark on the sides that   *)
(* touch the literal, every policy; and the template of scenario S3        *)
WsMarks == {"unset", "+", "-", "~"}

WsRuns == {<<>>, <<SPC, SPC>>, <<SPC, NL, SPC>>}

\* a literal with text, and a literal that is whitespace only: the parser
\* hands the latter over as leading whitespace
WsLits ==
    {Lit(l, Ch("X"), r) : l \in WsRuns, r \in WsRuns}
        \cup {Lit(l, <<>>, <<>>) : l \in WsRuns \ {<<>>}}

\* {%~ if a ~%}\n   X   \n{%~ endif ~%}
S3Nodes ==
    <<IfN(<<Cond(<<"~", "~">>, Some(CondTest(NoneV, Var("a"))),
                 <<Lit(<<NL, SPC, SPC, SPC>>, Ch("X"), <<SPC, SPC, SPC, NL>>)>>)>>,
          <<"~", "~">>)>>

WsTemplates ==
    {<<Comment(<<"unset", a>>), lit, Comment(<<b, "unset">>)>> :
        a \in WsMarks, b \in WsMarks, lit \in WsLits} \cup {S3Nodes}

InitWs ==
    \E w \in Policies, nodes \in WsTemplates :
        LET root == Context("root.html", nodes, {}, {})
        IN InitWith(TemplateInput(w, NoneV, "root.html"), [q \in {"root.html"} |-> root], root)

(* a filter block whose body reaches, or does not reach, a block or a     *)
(* super() call: directly, nested, through an include, through a macro     *)
\* {% macro mb() %}{% block b %}k{% endblock %}{% endmacro %}
MacroMb ==
    MacroN("mb", NoWs, <<>>, <<BlockDef("b", NoWs, NoWs, <<Lit(<<>>, Ch("k"), <<>>)>>)>>, NoWs)

FilterInner ==
    {<<Lit(<<>>, Ch("u"), <<>>)>>,
     <<BlockB(<<Lit(<<>>, Ch("k"), <<>>)>>)>>,
     <<Super>>,
     <<IncludeN(NoWs, "base.html")>>,
     <<IncludeN(NoWs, "inc.html")>>,
     <<CallN(NoWs, NoneV, "mb", <<>>)>>,
     <<CallN(NoWs, NoneV, "m", <<Num("1")>>)>>,
     <<IfN(<<Cond(NoWs, Some(CondTest(NoneV, X)),
                  <<Lit(<<>>, Ch("c"), <<>>), BlockB(<<Lit(<<>>, Ch("k"), <<>>)>>)>>)>>,
           NoWs)>>,
     <<LoopN(NoWs, TName("y"), X, NoneV, <<Super>>, NoWs, <<>>, NoWs)>>,
     <<LoopN(NoWs, TName("y"), X, NoneV, <<ExprN(NoWs, Var("y"))>>, NoWs, <<>>, NoWs)>>}

FilterBodies ==
    FilterInner
        \cup {<<FilterBlockN(NoWs, "lower", b, NoWs)>> : b \in FilterInner}
        \cup {<<FilterBlockN(NoWs, "lower", <<Lit(<<>>, Ch("v"), <<>>)>>, NoWs)>> \o b :
                 b \in FilterInner}

FilterContexts(root) ==
    [q \in {"root.html", "inc.html", "base.html"} |->
        CASE q = "root.html" -> root
          [] q = "inc.html" -> IncContext
          [] q = "base.html" ->
                Context(q, <<BlockB(<<Lit(<<>>, Ch("k"), <<>>)>>)>>, {}, {})]

InitFilter ==
    \E body \in FilterBodies,
       after \in {<<>>, <<BlockB(<<Lit(<<>>, Ch("k"), <<>>)>>)>>} :
        LET root == Context("root.html", <<FilterBlockN(NoWs, "upper", body, NoWs)>> \o after,
                            {MacroM, MacroMb}, {})
        IN InitWith(TemplateInput("Preserve", NoneV, "root.html"), FilterContexts(root), root)

(* a macro, import or extends node below the top level: in an if branch,  *)
(* a match arm, a for body or else arm, a filter block, a block body and   *)
(* the body of a called macro                                               *)
TopOnlyNodes == {MacroM, ImportN(NoWs), ExtendsN("base.html")}

NestedPlaces(t) ==
    {<<IfN(<<Cond(NoWs, Some(CondTest(NoneV, X)), <<Lit(<<>>, Ch("c"), <<>>), t>>)>>, NoWs)>>,
     <<MatchN(NoWs, X, <<When(NoWs, TName("y"), <<t>>)>>, NoWs)>>,
     <<LoopN(NoWs, TName("y"), X, NoneV, <<t>>, NoWs, <<>>, NoWs)>>,
     <<LoopN(NoWs, TName("y"), X, NoneV, <<ExprN(NoWs, Var("y"))>>, NoWs, <<t>>, NoWs)>>,
     <<FilterBlockN(NoWs, "upper", <<t>>, NoWs)>>,
     <<BlockB(<<t>>)>>,
     <<BlockB(<<IfN(<<Cond(NoWs, Some(CondTest(NoneV, X)), <<t>>)>>, NoWs)>>)>>,
     <<CallN(NoWs, NoneV, "mt", <<>>)>>}

InitNested ==
    \E t \in TopOnlyNodes :
        \E before \in {<<>>, <<t>>}, place \in NestedPlaces(t) :
            LET root == Context("root.html", before \o place,
                                {MacroN("mt", NoWs, <<>>, <<t>>, NoWs)}, {})
            IN InitWith(TemplateInput("Preserve", NoneV, "root.html"),
                        [q \in {"root.html", "base.html"} |->
                            IF q = "root.html" THEN root ELSE BaseContext],
                        root)

(* a block definition met while the block of that name is active, and a   *)
(* super() call met while no block is active: directly, in an if or a     *)
(* loop, through a macro call and through an include                       *)
\* {% macro mr() %}{% block b %}r{% endblock %}{% endmacro %}
MacroMr ==
    MacroN("mr", NoWs, <<>>, <<BlockDef("b", NoWs, NoWs, <<Lit(<<>>, Ch("r"), <<>>)>>)>>, NoWs)

\* {% macro ms() %}{{ super() }}{% endmacro %}
MacroMs == MacroN("ms", NoWs, <<>>, <<Super>>, NoWs)

RecInner ==
    {<<Super>>,
     <<Lit(<<SPC>>, Ch("t"), <<SPC>>), Super>>,
     <<CallN(NoWs, NoneV, "mr", <<>>)>>,
     <<CallN(NoWs, NoneV, "ms", <<>>)>>,
     <<IncludeN(NoWs, "sup.html")>>,
     <<IfN(<<Cond(NoWs, Some(CondTest(NoneV, X)), <<CallN(NoWs, NoneV, "mr", <<>>)>>)>>,
           NoWs)>>,
     <<LoopN(NoWs, TName("y"), X, NoneV, <<Super>>, NoWs, <<>>, NoWs)>>,
     <<BlockDef("c", NoWs, NoWs, <<Lit(<<>>, Ch("c"), <<>>), Super>>)>>,
     <<Lit(<<>>, Ch("u"), <<>>)>>}

RecPlaces(inner) ==
    {inner,
     <<BlockB(<<Lit(<<>>, Ch("o"), <<>>)>> \o inner)>>,
     <<Lit(<<>>, Ch("a"), <<SPC>>), BlockB(inner), Lit(<<>>, Ch("z"), <<>>)>>}

RecContexts(root) ==
    [q \in {"root.html", "sup.html"} |->
        IF q = "root.html" THEN root
        ELSE Context(q, <<Lit(<<>>, Ch("s"), <<>>), Super>>, {}, {})]

InitRec ==
    \E w \in Policies, inner \in RecInner :
        \E nodes \in RecPlaces(inner) :
            LET root == Context("root.html", nodes, {MacroMr, MacroMs}, {})
            IN InitWith(TemplateInput(w, NoneV, "root.html"), RecContexts(root), root)

(* for loops: with and without an else arm, with and without a filter    *)
(* clause, with break and continue in the body, between literals           *)
LoopBodies ==
    {<<ExprN(NoWs, X)>>,
     <<Lit(<<>>, Ch("["), <<>>), ExprN(NoWs, X), Lit(<<>>, Ch("]"), <<>>)>>,
     <<ExprN(NoWs, X), BreakN(NoWs)>>,
     <<ExprN(NoWs, X), ContinueN(NoWs), Lit(<<>>, Ch("!"), <<>>)>>}

LoopElses ==
    {<<>>,
     <<Lit(<<>>, <<"e", "m", "p", "t", "y">>, <<>>)>>,
     <<Lit(<<>>, Ch("n"), <<SPC>>), ExprN(NoWs, Var("z"))>>}

LoopConds == {NoneV, Some(CallE(Var("keep"), <<X>>))}

LoopAround == {<<>>, <<Lit(<<>>, Ch("a"), <<>>)>>}

InitLoop ==
    \E body \in LoopBodies, else_nodes \in LoopElses, cond \in LoopConds,
       before \in LoopAround, after \in LoopAround :
        LET root == Context("root.html",
                        before \o <<LoopN(NoWs, TName("x"), Var("items"), cond, body, NoWs,
                                          else_nodes, NoWs)>> \o after,
                        {}, {})
        IN InitWith(TemplateInput("Preserve", NoneV, "root.html"),
                    [q \in {"root.html"} |-> root], root)

(* let statements: declarations and assignments of a plain name and of a   *)
(* keyword name, a tuple pattern, between interpolations and text          *)
MaxLets == 3

LetNames == {"x", "type"}

LetNodes ==
    {ExprN(NoWs, Var(n)) : n \in LetNames}
        \cup {LetN(NoWs, TName(n), NoneV) : n \in LetNames}
        \cup {LetN(NoWs, TName(n), Some(Num("1"))) : n \in LetNames}
        \cup {Lit(<<>>, Ch("a"), <<>>),
              Lit(<<>>, <<"{", "b">>, <<>>),
              LetN(NoWs, TTuple(<<TName("x"), TName("y")>>), Some(Var("p")))}

InitLet ==
    \E nodes \in SeqsUpTo(LetNodes, MaxLets) :
        LET root == Context("root.html", nodes, {}, {})
        IN InitWith(TemplateInput("Preserve", NoneV, "root.html"),
                    [q \in {"root.html"} |-> root], root)

(* two blocks that each hold a definition of the other: base.html is      *)
(* {% block a %}A{% block b %}B{% endblock %}{% endblock %} and child.html *)
(* overrides b with a body that holds a definition of a                    *)
CrossInner ==
    {<<>>,
     <<Lit(<<>>, Ch("x"), <<>>)>>,
     <<Super>>,
     <<Lit(<<>>, Ch("x"), <<>>), Super>>}

CrossContexts(inner) ==
    [q \in {"child.html", "base.html"} |->
        IF q = "child.html"
        THEN Context(q, <<ExtendsN("base.html"),
                          BlockB(<<Lit(<<>>, Ch("c"), <<>>),
                                   BlockDef("a", NoWs, NoWs, inner)>>)>>,
                     {}, {})
        ELSE Context(q, <<BlockDef("a", NoWs, NoWs,
                              <<Lit(<<>>, Ch("A"), <<>>),
                                BlockB(<<Lit(<<>>, Ch("B"), <<>>)>>)>>)>>,
                     {}, {})]

InitCross ==
    \E w \in Policies, inner \in CrossInner, path \in {"child.html", "base.html"} :
        LET cs == CrossContexts(inner)
        IN InitWith(TemplateInput(w, NoneV, path), cs, cs[path])

(* an include between a let and an interpolation of the including         *)
(* template; the included template reads x, binds x or binds y             *)
LentBodies ==
    {<<ExprN(NoWs, X)>>,
     <<LetN(NoWs, TName("x"), Some(Num("2"))), ExprN(NoWs, X)>>,
     <<LetN(NoWs, TName("y"), Some(Num("3"))), ExprN(NoWs, Var("y")), ExprN(NoWs, X)>>}

LentBefore == {<<>>, <<LetN(NoWs, TName("x"), Some(Num("1")))>>}

LentAfter == {<<>>, <<ExprN(NoWs, X)>>, <<ExprN(NoWs, Var("y"))>>}

InitLent ==
    \E body \in LentBodies, before \in LentBefore, after \in LentAfter, w \in Policies :
        LET root == Context("root.html", before \o <<IncludeN(NoWs, "inc.html")>> \o after,
                            {}, {})
        IN InitWith(TemplateInput(w, NoneV, "root.html"),
                    [q \in {"root.html", "inc.html"} |->
                        IF q = "root.html" THEN root
                        ELSE Context("inc.html", body, {}, {})],
                    root)

(* a literal with trailing whitespace, one node of any other kind, and a  *)
(* literal                                                                 *)
InitGap ==
    \E w \in Policies, n \in {m \in MainNodes : m.k # "Lit"} :
        LET root == Context("root.html",
                        <<Lit(<<>>, Ch("a"), <<SPC>>), n, Lit(<<SPC>>, Ch("b"), <<>>)>>,
                        {MacroM}, {})
        IN InitWith(TemplateInput(w, NoneV, "root.html"), MainContexts(root), root)

(* the loop variables and loop methods in a for body, literal patterns of  *)
(* a match, the filters format and fmt on a filter block, an include of a  *)
(* file that was not parsed and of a template that is in no directory, an  *)
(* interpolation of a keyword name, and if and for constructs nested       *)
(* MaxDeep deep                                                            *)
MaxDeep == 4

RECURSIVE NestedIf(_)
NestedIf(n) ==
    IfN(<<Cond(NoWs, Some(CondTest(NoneV, X)),
               IF n = 1 THEN <<Lit(<<>>, Ch("c"), <<>>)>> ELSE <<NestedIf(n - 1)>>)>>, NoWs)

RECURSIVE NestedLoop(_)
NestedLoop(n) ==
    LoopN(NoWs, TName("y"), X, NoneV,
          IF n = 1 THEN <<ExprN(NoWs, Var("y"))>> ELSE <<NestedLoop(n - 1)>>, NoWs, <<>>, NoWs)

LoopExprs ==
    {Attr(Var("loop"), a) : a \in {"index", "index0", "first", "last", "size"}}
        \cup {CallE(Attr(Var("loop"), "cycle"), <<X>>),
              CallE(Attr(Var("loop"), "cycle"), <<>>),
              CallE(Attr(Var("loop"), "index"), <<>>)}

ExprNodes ==
    {LoopN(NoWs, TName("y"), X, NoneV, <<ExprN(NoWs, e)>>, NoWs, <<>>, NoWs) : e \in LoopExprs}
        \cup {MatchN(NoWs, X,
                     <<When(NoWs, TNumLit("1"), <<Lit(<<>>, Ch("e"), <<>>)>>),
                       When(NoWs, TTuple(<<TNumLit("2"), TName("y")>>),
                            <<ExprN(NoWs, Var("y"))>>)>>, NoWs),
              FilterBlockN(NoWs, "format", <<Lit(<<>>, Ch("u"), <<>>)>>, NoWs),
              FilterBlockN(NoWs, "fmt", <<Lit(<<>>, Ch("u"), <<>>)>>, NoWs),
              IncludeN(NoWs, "late.html"),
              IncludeN(NoWs, "nope.html"),
              ExprN(NoWs, Var("if")),
              ExprN(NoWs, Var("loop")),
              NestedIf(MaxDeep),
              NestedLoop(MaxDeep)}

InitExpr ==
    \E n \in ExprNodes, before \in LoopAround, after \in LoopAround :
        LET root == Context("root.html", before \o <<n>> \o after, {}, {})
        IN InitWith(TemplateInput("Preserve", NoneV, "root.html"),
                    [q \in {"root.html"} |-> root], root)

(* templates whose generation stops at an expression that visit_expr     *)
(* refuses, in each place where a handler has written to the Buffer or    *)
(* to the scopes before it visits the expression                           *)
Nope == Attr(Var("loop"), "nope")

IfOn(test) == IfN(<<Cond(NoWs, Some(test), <<Lit(<<>>, Ch("c"), <<>>)>>)>>, NoWs)

LoopIf(cond) ==
    LoopN(NoWs, TName("y"), X, Some(cond), <<Lit(<<>>, Ch("g"), <<>>)>>, NoWs, <<>>, NoWs)

RefusedTemplates ==
    {<<IfOn(CondTest(NoneV, Nope))>>,
     <<IfN(<<Cond(NoWs, Some(CondTest(NoneV, X)), <<Lit(<<>>, Ch("c"), <<>>)>>),
             Cond(NoWs, Some(CondTest(NoneV, Nope)), <<Lit(<<>>, Ch("d"), <<>>)>>)>>, NoWs)>>,
     <<IfOn(CondTest(Some(TName("y")), Nope))>>,
     <<IfOn(CondTest(Some(TName("y")), BinOp("&&", X, Nope)))>>,
     <<IfOn(CondTest(Some(TName("y")), BinOp("||", Nope, X)))>>,
     <<LoopIf(Nope)>>,
     <<LoopIf(BinOp("&&", Var("y"), Nope))>>,
     <<LoopIf(CallE(Var("f"), <<Var("y"), Nope>>))>>,
     <<LoopIf(Try(Attr(Nope, "a")))>>,
     <<LoopIf(CallE(Attr(Var("loop"), "cycle"), <<Nope>>))>>,
     <<ExprN(NoWs, Nope), FilterBlockN(NoWs, "upper", <<Lit(<<>>, Ch("u"), <<>>)>>, NoWs)>>,
     <<FilterBlockN(NoWs, "upper", <<ExprN(NoWs, Nope)>>, NoWs)>>,
     <<BlockDef("b", NoWs, NoWs, <<Lit(<<>>, Ch("g"), <<>>), IfOn(CondTest(NoneV, Nope))>>)>>,
     <<BlockDef("b", NoWs, NoWs, <<LetN(NoWs, TName("x"), Some(Num("1"))),
                                   ExprN(NoWs, Nope)>>)>>,
     <<MacroG, CallN(NoWs, NoneV, "g", <<Num("1"), Nope>>)>>,
     <<MacroG, CallN(NoWs, NoneV, "g", <<X, Attr(Nope, "a")>>)>>,
     <<MacroG, CallN(NoWs, NoneV, "g", <<Nope, Num("1")>>)>>}

InitRefused ==
    \E nodes \in RefusedTemplates, before \in LoopAround :
        LET root == Context("root.html", before \o nodes, {}, {})
        IN InitWith(TemplateInput("Preserve", NoneV, "root.html"),
                    [q \in {"root.html"} |-> root], root)

(* the builds: every set of features, on an empty template, on text and  *)
(* on a filter block with the json filter                                  *)
Features == {"serde_json", "with-actix-web", "with-axum", "with-rocket", "with-warp"}

BuildTemplates ==
    {<<>>,
     <<Lit(<<>>, Ch("a"), <<>>)>>,
     <<FilterBlockN(NoWs, "json", <<Lit(<<>>, Ch("u"), <<>>)>>, NoWs)>>,
     <<Lit(<<>>, Ch("a"), <<>>),
       FilterBlockN(NoWs, "tojson", <<ExprN(NoWs, X)>>, NoWs)>>}

InitBuild ==
    \E nodes \in BuildTemplates, enabled \in SUBSET Features :
        LET root == Context("root.html", nodes, {}, {})
        IN InitBuilt(TemplateInput("Preserve", NoneV, "root.html"),
                     [q \in {"root.html"} |-> root], root, enabled)

InitTemplates ==
    \/ InitBuild
    \/ InitRefused
    \/ InitExpr
    \/ InitGap
    \/ InitLent
    \/ InitCross
    \/ InitLet
    \/ InitLoop
    \/ InitRec
    \/ InitFilter
    \/ InitNested
    \/ InitMain
    \/ InitCall
    \/ InitChain
    \/ InitFrag
    \/ InitWs

Init == conv = Idle /\ InitTemplates

Next ==
    \/ Begin
    \/ StepLit
    \/ StepComment
    \/ StepExpr
    \/ StepLet
    \/ StepIf
    \/ StepMatch
    \/ StepLoop
    \/ StepBlockDef
    \/ StepInclude
    \/ StepCall
    \/ StepFilterBlock
    \/ StepMacro
    \/ StepRaw
    \/ StepImport
    \/ StepBreak
    \/ StepContinue
    \/ End

Spec == Init /\ [][Next]_vars

--------------------------------------------------------------------------
(* The error conversions on their own: an error of every type, bare or     *)
(* wrapped in up to MaxWrap io::Errors, is converted into a rinja Error,   *)
(* and a rinja Error into an io::Error.                                    *)
MaxWrap == 6

\* the errors of a build: a serde_json::Error can be met in every build,
\* Error::Json only in a build with the feature serde_json
ErrCores(enabled) ==
    {FmtErr, OtherErr, JsonErr, IoErr(NoneV), ErrorFmt, ErrorCustom(OtherErr),
     ErrorCustom(FmtErr), ErrorCustom(JsonErr), ErrorCustom(IoErr(NoneV)),
     ErrorCustom(IoErr(Some(OtherErr)))}
        \cup (IF "serde_json" \in enabled THEN {ErrorJson(JsonErr)} ELSE {})

\* the error wrapped in n io::Errors
RECURSIVE WrapIo(_, _)
WrapIo(n, err) == IF n = 0 THEN err ELSE IoErr(Some(WrapIo(n - 1, err)))

ErrInputs(enabled) == {WrapIo(n, core) : n \in 0..MaxWrap, core \in ErrCores(enabled)}

EmptyContext == Context("root.html", <<>>, {}, {})

ErrInit ==
    \E enabled \in {{}, {"serde_json"}} :
        /\ InitBuilt(TemplateInput("Preserve", NoneV, "root.html"),
                     [q \in {"root.html"} |-> EmptyContext], EmptyContext, enabled)
        /\ \E e \in ErrInputs(enabled) : conv = [op |-> "start", arg |-> e, res |-> NoneV]

ErrNext ==
    \/ ConvertBox
    \/ ConvertIo
    \/ ConvertIntoIo

ErrSpec == ErrInit /\ [][ErrNext]_vars

--------------------------------------------------------------------------
(* What the emitted lines write *)
IsBrace(c) == c \in {"{", "}"}

\* the literal bytes of a format string: a doubled brace is one byte
FmtLiteralLen(fmt) ==
    Cardinality({i \in 1..Len(fmt) : fmt[i].t = "c"})
        - (Cardinality({i \in 1..Len(fmt) : fmt[i].t = "c" /\ IsBrace(fmt[i].c)}) \div 2)

LineLiteralLen(line) ==
    CASE line.op = "write_str" -> Len(line.s)
      [] line.op = "write" -> FmtLiteralLen(line.fmt)
      [] OTHER -> 0

LiteralBytes(out) == SumSeq([i \in 1..Len(out) |-> LineLiteralLen(out[i])])

\* the emitted code has no branch and no loop: every line runs exactly once
BranchOps ==
    {"if", "else_if", "else", "match", "arm", "for_open", "let_iter", "iter_filter",
     "did_loop_init", "did_loop_set", "if_not_did_loop", "break", "continue"}

StraightLine(out) == \A i \in 1..Len(out) : out[i].op \notin BranchOps

\* a step of the walk that handled the node at pc and returned Ok
Handled == phase = "walk" /\ phase' = "walk" /\ pc' = pc + 1

\* the lines a step appended to the Buffer
NewLines == SubSeq(st'.out, Len(st.out) + 1, Len(st'.out))

--------------------------------------------------------------------------
(* C1 *)
\* C1: when the handling of an if, a match, a for, a macro call, a filter
\* block or a let returns successfully, the scope chain has as many scopes
\* as before the node was handled.
C1ScopeDepthKept ==
    [][(Handled /\ Nodes[pc].k \in {"If", "Match", "Loop", "Call", "FilterBlock", "Let"})
          => Len(st'.locals.scopes) = Len(st.locals.scopes)]_vars

(* C2 *)
\* C2: for a template whose emitted code is straight-line, the SIZE_HINT of
\* the walk is at least the number of literal bytes the code writes.
C2SizeHintCoversLiterals ==
    (phase = "done" /\ StraightLine(st.out)) => size_hint >= LiteralBytes(st.out)

--------------------------------------------------------------------------
(* Macro calls: what a call names and passes, read off the template *)
IsMacroCall(n) == n.k = "Call" /\ n.name # "super"

\* the walk is about to handle a macro call
AtCall == phase = "walk" /\ pc \in 1..Len(Nodes) /\ IsMacroCall(Nodes[pc])

ScopeIsAlias(n) == \E i \in ctx.imports : i.alias = n.scope[1]

\* the definitions that the call's scope and name designate
CalledMacros(n) ==
    IF IsNone(n.scope) THEN {m \in ctx.macros : m.name = n.name}
    ELSE UNION {IF i.path \in DOMAIN contexts
                THEN {m \in contexts[i.path].macros : m.name = n.name}
                ELSE {} : i \in {j \in ctx.imports : j.alias = n.scope[1]}}

CalledMacro(n) == CHOOSE m \in CalledMacros(n) : TRUE

\* the call at pc names a macro and passes as many arguments as it declares
AtFullCall ==
    /\ AtCall
    /\ CalledMacros(Nodes[pc]) # {}
    /\ Len(Nodes[pc].args) = Len(CalledMacro(Nodes[pc]).args)

\* the positions of the trailing run of named arguments
TrailingRun(args) ==
    {i \in 1..Len(args) : \A j \in i..Len(args) : args[j].k = "Named"}

NamedInRun(args, p) == \E i \in TrailingRun(args) : args[i].n = p

\* a named argument stands before an unnamed one
NamedBeforeUnnamed(args) ==
    \E i \in 1..Len(args), j \in 1..Len(args) :
        i < j /\ args[i].k = "Named" /\ args[j].k # "Named"

\* the argument that parameter number j of the macro receives
PassedTo(params, args, j) ==
    IF NamedInRun(args, params[j])
    THEN args[CHOOSE i \in TrailingRun(args) :
                 /\ args[i].n = params[j]
                 /\ \A h \in TrailingRun(args) : args[h].n = params[j] => i <= h]
    ELSE args[j]

\* the literal value of an argument of the model
ValueOf(arg) == IF arg.k = "Named" THEN <<arg.e.v>> ELSE <<arg.v>>

Rejected(msg) == phase' = "error" /\ st'.err = msg

\* a named argument of the trailing run names no parameter
UnknownName(params, args) ==
    \E i \in TrailingRun(args) : args[i].n \notin SeqToSet(params)

\* a parameter named in the trailing run is followed by one that is not
UnnamedAfterNamed(params, args) ==
    \E j \in 1..Len(params), k \in 1..Len(params) :
        j < k /\ NamedInRun(args, params[j]) /\ ~NamedInRun(args, params[k])

\* the two errors write_call raises for the named arguments of a call
NamedArgErrors ==
    {"no argument with this name in macro",
     "cannot have unnamed argument after named argument"}

\* the step passed the argument checks of write_call: the call was handled,
\* or it failed later, inside the body of the macro
ArgsAccepted == Handled \/ (phase' = "error" /\ st'.err \notin NamedArgErrors)

TupleLines(lines) == SelectSeq(lines, LAMBDA l : l.op = "let_tuple")

\* the walk stopped with an error at the node at pc
Failed == phase = "error" /\ pc \in 1..Len(Nodes)

--------------------------------------------------------------------------
(* C3 *)
\* C3 as claimed: a call that passes fewer arguments than the macro
\* declares parameters is accepted.
C3ShortCallAccepted ==
    ~(/\ Failed
      /\ IsMacroCall(Nodes[pc])
      /\ CalledMacros(Nodes[pc]) # {}
      /\ Len(Nodes[pc].args) < Len(CalledMacro(Nodes[pc]).args))

\* C3 as amended: a macro has no default values.  A call that passes fewer
\* or more arguments than the macro declares parameters is rejected with the
\* argument-count error.  A call that passes as many is rejected when a
\* trailing named argument names no parameter, and when a parameter that
\* follows a named parameter in the definition is given no named argument;
\* every other such call passes the argument checks, and a call that is
\* handled is lowered to one binding of the parameters, in which a parameter
\* named by a trailing argument takes the value of that argument and every
\* other parameter takes the value at its own position.
C3NoDefaultsNamedOverride ==
    [][(AtCall /\ CalledMacros(Nodes[pc]) # {})
          => LET n == Nodes[pc]
                 def == CalledMacro(n)
                 bound == TupleLines(NewLines)
             IN IF Len(n.args) # Len(def.args)
                THEN Rejected("macro expected a different number of arguments")
                ELSE IF UnknownName(def.args, n.args)
                THEN Rejected("no argument with this name in macro")
                ELSE IF UnnamedAfterNamed(def.args, n.args)
                THEN Rejected("cannot have unnamed argument after named argument")
                ELSE /\ ArgsAccepted
                     /\ Handled
                           => /\ Len(bound) = 1
                              /\ bound[1].names = def.args
                              /\ \A j \in 1..Len(def.args) :
                                    bound[1].values[j].text
                                        = ValueOf(PassedTo(def.args, n.args, j))]_vars

\* the call g(1, y = 7) of macro g(x, y) was handled and binds (x, y) to (1, 7)
C3Witness ==
    /\ phase = "done"
    /\ \E i \in 1..Len(Nodes) :
          /\ IsMacroCall(Nodes[i])
          /\ Nodes[i].name = "g"
          /\ Nodes[i].args = <<Num("1"), Named("y", Num("7"))>>
    /\ \E i \in 1..Len(st.out) :
          /\ st.out[i].op = "let_tuple"
          /\ st.out[i].names = <<"x", "y">>
          /\ st.out[i].values[1].text = <<"1">>
          /\ st.out[i].values[2].text = <<"7">>

--------------------------------------------------------------------------
(* What the emitted code writes, read back from the Buffer *)
\* a format string's literal text: a doubled brace stands for one brace
RECURSIVE Unescaped(_)
Unescaped(fmt) ==
    IF fmt = <<>> THEN <<>>
    ELSE IF Head(fmt).t = "c" /\ IsBrace(Head(fmt).c) /\ Len(fmt) >= 2
    THEN <<Head(fmt)>> \o Unescaped(Tail(Tail(fmt)))
    ELSE <<Head(fmt)>> \o Unescaped(Tail(fmt))

ArgOf(line, id) == (CHOOSE i \in 1..Len(line.args) : line.args[i].id = id)

\* the variable or field an interpolated expression ends in: x for both
\* `x` and `self.x`
OriginOf(text) == text[Len(text) - 1]

\* the pieces a line writes: ["c", char] for a literal byte and
\* ["e", origin] for an interpolation
LinePieces(line) ==
    CASE line.op = "write_str" -> [i \in 1..Len(line.s) |-> <<"c", line.s[i]>>]
      [] line.op = "write" ->
            LET f == Unescaped(line.fmt)
            IN [i \in 1..Len(f) |->
                   IF f[i].t = "c" THEN <<"c", f[i].c>>
                   ELSE <<"e", OriginOf(line.args[ArgOf(line, f[i].id)].text)>>]
      [] OTHER -> <<>>

Pieces(out) == Concat([i \in 1..Len(out) |-> LinePieces(out[i])])

\* the literal text the emitted code writes
LiteralText(out) ==
    LET lits == SelectSeq(Pieces(out), LAMBDA q : q[1] = "c")
    IN [i \in 1..Len(lits) |-> lits[i][2]]

WriteLinesOf(out) == SelectSeq(out, LAMBDA l : l.op = "write")

--------------------------------------------------------------------------
(* C4 *)
\* the top level of the template holds text, let statements and blocks only:
\* a variable it binds is bound in the scopes of the template that contains
\* the blocks, and a reference to x is inside a block
OnlyBlocksReadX ==
    \A i \in 1..Len(Nodes) :
        /\ Nodes[i].k \in {"Lit", "Let", "BlockDef"}
        /\ Nodes[i].k = "BlockDef"
              => \A j \in 1..Len(Nodes[i].nodes) : Nodes[i].nodes[j].k # "Let"

\* C4: a reference to x inside a block body is resolved against a fresh
\* scope chain: when x is bound only by the template around the block, no
\* interpolation of the emitted code reads the local variable x.
C4BlockReadsSelf ==
    (phase = "done" /\ IsNone(input.block) /\ OnlyBlocksReadX)
        => \A i \in 1..Len(st.out) :
              st.out[i].op = "write"
                  => \A j \in 1..Len(st.out[i].args) :
                        st.out[i].args[j].text # AutoEscaped(<<"x">>)

--------------------------------------------------------------------------
(* C5 *)
\* the input selects a block that the heritage knows
SelectsBlock ==
    /\ IsSome(input.block)
    /\ IsSome(st.heritage)
    /\ HeritageHas(st.heritage[1], input.block[1])

\* the code generated, without a selector, for the template that consists
\* of the selected block alone
SelectedAlone ==
    Handle([Env EXCEPT !.input.block = NoneV], ctx,
           NewGenerator([input EXCEPT !.block = NoneV], st.heritage),
           <<BlockDef(input.block[1], NoWs, NoWs, <<>>)>>, "Top").st

\* C5: with a block selected, the literals and interpolations the emitted
\* code writes are those of the body of the selected block, with the blocks,
\* includes and macro calls inside it, all of them and in their order;
\* nothing queued before or after the block is written.
C5OnlySelectedBlock ==
    (phase = "done" /\ SelectsBlock) => Pieces(st.out) = Pieces(SelectedAlone.out)

\* a template with text before and after the selected block was generated
\* and its code writes something
C5Witness ==
    /\ phase = "done"
    /\ SelectsBlock
    /\ Len(Nodes) = 3
    /\ Nodes[1].k = "Lit"
    /\ Nodes[3].k = "Lit"
    /\ Pieces(st.out) = <<<<"c", "I">>, <<"e", "x">>>>

--------------------------------------------------------------------------
(* C6 *)
\* text, blocks and super() calls only, without whitespace; an extends node
\* may stand at the top level
RECURSIVE PlainNodes(_, _)
PlainNodes(nodes, top) ==
    \A i \in 1..Len(nodes) :
        \/ nodes[i].k = "Lit" /\ nodes[i].lws = <<>> /\ nodes[i].rws = <<>>
        \/ nodes[i].k = "BlockDef" /\ PlainNodes(nodes[i].nodes, FALSE)
        \/ nodes[i].k = "Extends" /\ top
        \/ nodes[i].k = "Call" /\ nodes[i].name = "super"

PlainHeritage ==
    /\ IsSome(st.heritage)
    /\ PlainNodes(Nodes, TRUE)
    /\ \A b \in st.heritage[1].blocks :
          \A d \in 1..Len(b.chain) : PlainNodes(b.chain[d].def.nodes, FALSE)

\* the text of the nodes of the body at generation d of block `name`, with
\* every block replaced by the body at its generation 0 and every super()
\* by the body at generation d + 1: [ok, over, text]; `over` tells that a
\* body holds itself (open is the set of the bodies being spliced), so that
\* the splice has no end
RECURSIVE SplicedNodes(_, _, _, _, _)
RECURSIVE SplicedBlock(_, _, _, _)
SplicedBlock(heritage, name, d, open) ==
    IF d + 1 > Len(HeritageGet(heritage, name))
    THEN [ok |-> FALSE, over |-> FALSE, text |-> <<>>]
    ELSE IF <<name, d>> \in open THEN [ok |-> FALSE, over |-> TRUE, text |-> <<>>]
    ELSE SplicedNodes(heritage, name, d, HeritageGet(heritage, name)[d + 1].def.nodes,
             open \cup {<<name, d>>})

SplicedNodes(heritage, name, d, nodes, open) ==
    IF nodes = <<>> THEN [ok |-> TRUE, over |-> FALSE, text |-> <<>>]
    ELSE LET n == Head(nodes)
             first == CASE n.k = "Lit" -> [ok |-> TRUE, over |-> FALSE, text |-> n.val]
                        [] n.k = "BlockDef" -> SplicedBlock(heritage, n.name, 0, open)
                        [] n.k = "Call" -> SplicedBlock(heritage, name, d + 1, open)
                        [] OTHER -> [ok |-> TRUE, over |-> FALSE, text |-> <<>>]
             rest == SplicedNodes(heritage, name, d, Tail(nodes), open)
         IN IF ~first.ok THEN first
            ELSE [ok |-> rest.ok, over |-> rest.over, text |-> first.text \o rest.text]

\* C6: a block definition splices the body at generation 0 of its block and
\* super() in the body at generation d the body at generation d + 1; a
\* super() with no generation d + 1 is rejected.  A body that holds itself
\* exhausts the call stack instead.
C6InheritanceSplice ==
    (phase \in {"done", "error"} /\ IsNone(input.block) /\ PlainHeritage)
        => LET want == SplicedNodes(st.heritage[1], "", 0, Nodes, {})
           IN CASE want.ok -> phase = "done" /\ LiteralText(st.out) = want.text
                [] ~want.ok /\ want.over -> phase = "error" /\ st.err = "stack overflow"
                [] OTHER -> phase = "error" /\ st.err = "no super() block found"

\* child.html, whose block b is `super()` then `+c`, over base.html
\* `A[{% block b %}base{% endblock %}]B`: the code writes A[base+c]B
C6Witness ==
    /\ phase = "done"
    /\ input.path = "child.html"
    /\ LiteralText(st.out) = <<"A", "[", "b", "a", "s", "e", "+", "c", "]", "B">>

--------------------------------------------------------------------------
(* C7 *)
RECURSIVE LeadingWriteStrs(_)
LeadingWriteStrs(lines) ==
    IF lines = <<>> \/ Head(lines).op # "write_str" THEN 0
    ELSE 1 + LeadingWriteStrs(Tail(lines))

\* C7: when a tag that opens with a line of its own (if, match, for, macro
\* call, filter block) follows a run of literals, the run is written by one
\* write_str call: the lines of the tag start with at most one write_str.
C7OneWriteStrPerRun ==
    [][(/\ Handled
        /\ \/ Nodes[pc].k \in {"If", "Match", "Loop", "FilterBlock"}
           \/ IsMacroCall(Nodes[pc])
        /\ AllLits(st.bw))
          => LeadingWriteStrs(NewLines) <= 1]_vars

--------------------------------------------------------------------------
(* C8 *)
QueuedExprs(bw) ==
    LET es == SelectSeq(bw, LAMBDA w : w.t = "Expr") IN [i \in 1..Len(es) |-> es[i].e]

SlotIds(fmt) ==
    LET ss == SelectSeq(fmt, LAMBDA f : f.t = "s") IN [i \in 1..Len(ss) |-> ss[i].id]

\* the step flushes a queue that holds interpolations: its first new line
\* is the formatting call
Flushes ==
    /\ phase = "walk"
    /\ QueuedExprs(st.bw) # <<>>
    /\ Len(st'.out) > Len(st.out)
    /\ st'.out[Len(st.out) + 1].op = "write"

\* C8: in the formatting call of one flush, every slot refers to a binding
\* of its expression; a cacheable expression is bound exactly once however
\* often it occurs, and an expression that is not cacheable is bound once
\* per occurrence.
C8ExpressionDedup ==
    [][Flushes
          => LET line == st'.out[Len(st.out) + 1]
                 exprs == QueuedExprs(st.bw)
                 slots == SlotIds(line.fmt)
                 Lowered(e) == AutoEscaped(VisitExpr(st.locals, e).text)
                 Bindings(e) == {i \in 1..Len(line.args) : line.args[i].text = Lowered(e)}
                 Occurrences(e) == {k \in 1..Len(exprs) : exprs[k] = e}
             IN /\ Len(slots) = Len(exprs)
                /\ \A k \in 1..Len(exprs) :
                      /\ \E i \in Bindings(exprs[k]) : line.args[i].id = slots[k]
                      /\ IF IsCacheable(exprs[k])
                         THEN Cardinality(Bindings(exprs[k])) = 1
                         ELSE /\ Cardinality(Bindings(exprs[k]))
                                    = Cardinality(Occurrences(exprs[k]))
                              /\ \A j \in Occurrences(exprs[k]) :
                                    j # k => slots[j] # slots[k]]_vars

\* {{ x }}{{ x }} was flushed: one binding, two slots that name it
C8Witness ==
    /\ phase = "done"
    /\ \E i \in 1..Len(st.out) :
          /\ st.out[i].op = "write"
          /\ Len(st.out[i].args) = 1
          /\ SlotIds(st.out[i].fmt) = <<st.out[i].args[1].id, st.out[i].args[1].id>>

--------------------------------------------------------------------------
(* C9 *)
\* C9: for a call with the right number of arguments write_call returns an
\* error when a named argument names no parameter of the macro, and when a
\* parameter that follows a named parameter in the definition is given no
\* named argument; no call in which a named argument is followed by an
\* unnamed one is handled.  The parser passes on no call of the last kind,
\* and of the first two errors the one for the name is raised first.
C9NamedArgumentErrors ==
    [][AtFullCall
          => LET n == Nodes[pc]
                 def == CalledMacro(n)
             IN /\ UnknownName(def.args, n.args)
                      => Rejected("no argument with this name in macro")
                /\ UnnamedAfterNamed(def.args, n.args)
                      => phase' = "error" /\ st'.err \in NamedArgErrors
                /\ (UnnamedAfterNamed(def.args, n.args) /\ ~UnknownName(def.args, n.args))
                      => Rejected("cannot have unnamed argument after named argument")
                /\ NamedBeforeUnnamed(n.args) => ~Handled]_vars

\* g(2, x = 5) of macro g(x, y) was rejected: y follows x and has no named
\* argument
C9Witness ==
    /\ Failed
    /\ IsMacroCall(Nodes[pc])
    /\ Nodes[pc].name = "g"
    /\ Nodes[pc].args = <<Num("2"), Named("x", Num("5"))>>
    /\ st.err = "cannot have unnamed argument after named argument"

--------------------------------------------------------------------------
(* C10 *)
\* C10: a call whose scope is not an import alias of the current context,
\* or whose macro the designated context does not define, or that passes a
\* number of arguments other than the number of declared parameters, is
\* rejected with the error of that case.
C10ArityAndScope ==
    [][AtCall
          => LET n == Nodes[pc]
             IN IF IsSome(n.scope) /\ ~ScopeIsAlias(n)
                THEN Rejected("no import found for scope")
                ELSE IF CalledMacros(n) = {}
                THEN phase' = "error"
                        /\ st'.err \in {"context not found", "macro not found in scope",
                                        "macro not found"}
                ELSE Len(n.args) # Len(CalledMacro(n).args)
                        => Rejected("macro expected a different number of arguments")]_vars

\* lib::lm(1, 2) of macro lm(p) was rejected for its number of arguments
C10Witness ==
    /\ Failed
    /\ IsMacroCall(Nodes[pc])
    /\ Nodes[pc].scope = Some("lib")
    /\ Nodes[pc].args = <<Num("1"), Num("2")>>
    /\ st.err = "macro expected a different number of arguments"

--------------------------------------------------------------------------
(* Whitespace: what a literal between two tags leaves in the output *)
\* the policy in force for a mark
PolicyOf(mark) ==
    CASE mark = "+" -> "Preserve"
      [] mark = "-" -> "Suppress"
      [] mark = "~" -> "Minimize"
      [] OTHER -> input.whitespace

\* one character for a whitespace run
OneChar(run) == IF \E i \in 1..Len(run) : run[i] = NL THEN <<NL>> ELSE <<SPC>>

\* the template is tag, literal, tag
BetweenTags ==
    /\ Len(Nodes) = 3
    /\ Nodes[1].k = "Comment"
    /\ Nodes[2].k = "Lit"
    /\ Nodes[3].k = "Comment"

\* the policies of the tag sides that touch the literal
LeftPolicy == PolicyOf(Nodes[1].ws[2])
RightPolicy == PolicyOf(Nodes[3].ws[1])

\* the positions in the output of the characters that are not whitespace
TextAt(text) == {i \in 1..Len(text) : text[i] \notin {SPC, NL}}

\* the first and the last of these positions; 0 and Len + 1 bound a text of
\* whitespace only
FirstTextAt(text) ==
    IF TextAt(text) = {} THEN Len(text) + 1
    ELSE CHOOSE i \in TextAt(text) : \A j \in TextAt(text) : i <= j

LastTextAt(text) ==
    IF TextAt(text) = {} THEN 0
    ELSE CHOOSE i \in TextAt(text) : \A j \in TextAt(text) : j <= i

\* what the output holds of the leading run: the whitespace before the text
\* of the literal, or the whole output for a literal that is whitespace only
LeadEmitted ==
    LET text == LiteralText(st.out)
    IN IF Nodes[2].val = <<>> THEN text ELSE SubSeq(text, 1, FirstTextAt(text) - 1)

\* what the output holds of the trailing run: the whitespace after the text
TrailEmitted ==
    LET text == LiteralText(st.out)
    IN IF Nodes[2].val = <<>> THEN <<>> ELSE SubSeq(text, LastTextAt(text) + 1, Len(text))

--------------------------------------------------------------------------
(* C11 *)
\* C11: a leading whitespace run of a literal whose preceding tag side has
\* the policy minimize, and a trailing run whose following tag side has the
\* policy minimize, is emitted as exactly one character: a newline if the
\* run holds one, a space otherwise.  A run that also touches a tag side
\* with the policy suppress is left out.
C11MinimizeOneChar ==
    (phase = "done" /\ BetweenTags)
        => /\ (/\ Nodes[2].lws # <<>>
               /\ LeftPolicy = "Minimize"
               /\ Nodes[2].val = <<>> => RightPolicy # "Suppress")
                 => LeadEmitted = OneChar(Nodes[2].lws)
           /\ (Nodes[2].rws # <<>> /\ RightPolicy = "Minimize")
                 => TrailEmitted = OneChar(Nodes[2].rws)

--------------------------------------------------------------------------
(* C12 *)
\* the template of scenario S3 was generated
S3Done == phase = "done" /\ Nodes = S3Nodes

\* C12 as claimed: the code emitted for scenario S3 writes a space, X and a
\* space.
C12S3SingleSpaces == S3Done => LiteralText(st.out) = <<SPC, "X", SPC>>

\* C12 as amended: under every global policy the code emitted for scenario
\* S3 writes, inside the body of the if, a newline, X and a newline: each
\* run next to a `~` mark holds a newline and is reduced to that newline.
C12S3Newlines ==
    S3Done
        => /\ LiteralText(st.out) = <<NL, "X", NL>>
           /\ \E i \in 1..(Len(st.out) - 2) :
                 /\ st.out[i].op = "if"
                 /\ st.out[i + 1] = [op |-> "write_str", s |-> <<NL, "X", NL>>]
                 /\ st.out[i + 2].op = "close"

\* scenario S3 under the policy suppress: the marks override the policy
C12Witness ==
    /\ S3Done
    /\ input.whitespace = "Suppress"
    /\ \E i \in 1..Len(st.out) : st.out[i] = [op |-> "write_str", s |-> <<NL, "X", NL>>]

--------------------------------------------------------------------------
(* C13 *)
\* the marks of the tag sides that touch the literal
LeftMark == Nodes[1].ws[2]
RightMark == Nodes[3].ws[1]

\* what a mark other than `-` and unspecified leaves of a run
KeptAs(mark, run) ==
    IF run = <<>> THEN <<>> ELSE IF mark = "+" THEN run ELSE OneChar(run)

\* C13: under the global policy suppress, nothing of a whitespace run of a
\* literal reaches the output when a tag side that touches the run has the
\* mark '-' or no mark; otherwise the run is kept in full next to '+' and as
\* one character next to '~'.  The run of a literal that is whitespace only
\* touches both tags: it is left out when either mark is '-' or unset, kept
\* as one character when either mark is '~', and kept in full between two
\* '+' marks.
C13SuppressDropsWhitespace ==
    (phase = "done" /\ BetweenTags /\ input.whitespace = "Suppress")
        => IF Nodes[2].val = <<>>
           THEN IF LeftMark \in {"unset", "-"} \/ RightMark \in {"unset", "-"}
                THEN LiteralText(st.out) = <<>>
                ELSE IF LeftMark = "~" \/ RightMark = "~"
                THEN LiteralText(st.out) = OneChar(Nodes[2].lws)
                ELSE LiteralText(st.out) = Nodes[2].lws
           ELSE /\ LeadEmitted = (IF LeftMark \in {"unset", "-"} THEN <<>>
                                  ELSE KeptAs(LeftMark, Nodes[2].lws))
                /\ TrailEmitted = (IF RightMark \in {"unset", "-"} THEN <<>>
                                   ELSE KeptAs(RightMark, Nodes[2].rws))

--------------------------------------------------------------------------
(* C14 *)
\* the paths of the byte-include declarations, in the order of the lines
IncludedPaths(out) ==
    LET decls == SelectSeq(out, LAMBDA l : l.op = "include_bytes")
    IN [i \in 1..Len(decls) |-> decls[i].text[1]]

\* the paths of the contexts map in sorted order, without the template's own
\* path when its source is inline
ReferencedPaths ==
    SelectSeq(PathOrder,
        LAMBDA q : q \in DOMAIN contexts /\ ~(input.source = "Source" /\ q = input.path))

\* C14: whatever the input (file or inline source, with or without a block
\* selector), the emitted rendering function declares each referenced path
\* exactly once, in sorted order.
C14FileDependencies == phase = "done" => IncludedPaths(st.out) = ReferencedPaths

--------------------------------------------------------------------------
(* C15 *)
\* how deep the properties below follow the nesting of the nodes
MaxNest == 4

\* the walk of these nodes in context c meets a block definition or a
\* super() call: in the nodes, in a nested body, in an included template or
\* in the body of a called macro
RECURSIVE ReachesBlock(_, _, _)
ReachesBlock(nodes, c, fuel) ==
    /\ fuel > 0
    /\ \E i \in 1..Len(nodes) :
          LET n == nodes[i]
          IN CASE n.k = "BlockDef" -> TRUE
               [] n.k = "Call" ->
                     \/ n.name = "super"
                     \/ \E m \in c.macros :
                           m.name = n.name /\ ReachesBlock(m.nodes, c, fuel - 1)
               [] n.k = "Include" ->
                     /\ n.path \in DOMAIN contexts
                     /\ ReachesBlock(contexts[n.path].nodes, contexts[n.path], fuel - 1)
               [] n.k = "If" ->
                     \E j \in 1..Len(n.branches) :
                         ReachesBlock(n.branches[j].nodes, c, fuel - 1)
               [] n.k = "Match" ->
                     \E j \in 1..Len(n.arms) : ReachesBlock(n.arms[j].nodes, c, fuel - 1)
               [] n.k = "Loop" ->
                     ReachesBlock(n.body, c, fuel - 1) \/ ReachesBlock(n.else_nodes, c, fuel - 1)
               [] n.k = "FilterBlock" -> ReachesBlock(n.nodes, c, fuel - 1)
               [] OTHER -> FALSE

\* C15: a filter block whose walk meets a block definition or a super()
\* call, at any nesting depth, through an include or through a macro call,
\* is rejected with the error of write_block; and a filter block that is
\* handled leaves the filter-block depth as it was.
C15NoBlockInFilter ==
    [][(phase = "walk" /\ pc <= Len(Nodes) /\ Nodes[pc].k = "FilterBlock")
          => /\ ReachesBlock(Nodes[pc].nodes, ctx, MaxNest)
                   => Rejected("cannot have a block inside a filter block")
             /\ Handled => st'.fdepth = st.fdepth]_vars

\* a filter block was rejected for the block of the template it includes
C15Witness ==
    /\ Failed
    /\ Nodes[pc].k = "FilterBlock"
    /\ Nodes[pc].nodes[1].k = "Include"
    /\ st.err = "cannot have a block inside a filter block"

--------------------------------------------------------------------------
(* C16 *)
TopOnlyKinds == {"Macro", "Import", "Extends"}

TopOnlyError(kind) ==
    CASE kind = "Macro" -> "macro blocks only allowed at the top level"
      [] kind = "Import" -> "import blocks only allowed at the top level"
      [] kind = "Extends" -> "extend blocks only allowed at the top level"

\* the kinds of the macro, import and extends nodes that the walk of these
\* nodes meets below the top level; `below` says whether the nodes
\* themselves are below it
RECURSIVE NestedTopOnly(_, _, _, _)
NestedTopOnly(nodes, c, below, fuel) ==
    IF fuel = 0 THEN {}
    ELSE UNION {
        LET n == nodes[i]
        IN CASE n.k \in TopOnlyKinds -> IF below THEN {n.k} ELSE {}
             [] n.k = "If" ->
                   UNION {NestedTopOnly(n.branches[j].nodes, c, TRUE, fuel - 1) :
                             j \in 1..Len(n.branches)}
             [] n.k = "Match" ->
                   UNION {NestedTopOnly(n.arms[j].nodes, c, TRUE, fuel - 1) :
                             j \in 1..Len(n.arms)}
             [] n.k = "Loop" ->
                   NestedTopOnly(n.body, c, TRUE, fuel - 1)
                       \cup NestedTopOnly(n.else_nodes, c, TRUE, fuel - 1)
             [] n.k = "FilterBlock" -> NestedTopOnly(n.nodes, c, TRUE, fuel - 1)
             [] n.k = "BlockDef" -> NestedTopOnly(n.nodes, c, TRUE, fuel - 1)
             [] n.k = "Call" ->
                   UNION {NestedTopOnly(m.nodes, c, TRUE, fuel - 1) :
                             m \in {d \in c.macros : d.name = n.name}}
             [] OTHER -> {}
        : i \in 1..Len(nodes)}

\* C16: a node whose walk meets a macro, import or extends node below the
\* top level (in an if branch, a match arm, a for body or else arm, a
\* filter block, a block body or the body of a called macro) is rejected
\* with the error of that construct; a macro, import or extends node at the
\* top level is handled and writes no line of code.  The walk of a template
\* that extends another starts at the root of the heritage, so the arm of
\* handle for an extends node at the top level is applied to the generator
\* at hand: it returns the generator as it is.
C16TopLevelOnly ==
    [][(phase = "walk" /\ pc <= Len(Nodes))
          => LET met == NestedTopOnly(<<Nodes[pc]>>, ctx, FALSE, MaxNest)
             IN /\ met # {}
                      => phase' = "error" /\ st'.err \in {TopOnlyError(k) : k \in met}
                /\ Nodes[pc].k \in TopOnlyKinds => Handled /\ st'.out = st.out
                /\ HandleExtends(st, "Top") = st]_vars

\* an extends node in the body of a block was rejected
C16Witness ==
    /\ Failed
    /\ Nodes[pc].k = "BlockDef"
    /\ Nodes[pc].nodes = <<ExtendsN("base.html")>>
    /\ st.err = "extend blocks only allowed at the top level"

--------------------------------------------------------------------------
(* C17 *)
RecursiveBlock == "cannot define recursive blocks"

StraySuper == "cannot call 'super()' outside block"

\* the errors of write_block that the walk of these nodes meets: `active`
\* is the super_block of the generator that walks them, `h` the heritage
RECURSIVE BlockFaults(_, _, _, _, _)
BlockFaults(nodes, c, active, h, fuel) ==
    IF fuel = 0 THEN {}
    ELSE UNION {
        LET n == nodes[i]
            chain(name) == IF IsSome(h) /\ HeritageHas(h[1], name)
                           THEN HeritageGet(h[1], name) ELSE <<>>
            splice(name, gen) ==
                IF gen + 1 <= Len(chain(name))
                THEN BlockFaults(chain(name)[gen + 1].def.nodes,
                                 MergeContext(chain(name)[gen + 1].ctx, c),
                                 Some(<<name, gen>>), h, fuel - 1)
                ELSE {}
        IN CASE n.k = "BlockDef" ->
                   IF IsSome(active) /\ active[1][1] = n.name THEN {RecursiveBlock}
                   ELSE splice(n.name, 0)
             [] n.k = "Call" /\ n.name = "super" ->
                   IF IsNone(active) THEN {StraySuper}
                   ELSE splice(active[1][1], active[1][2] + 1)
             [] n.k = "Call" /\ n.name # "super" ->
                   IF IsSome(n.scope) THEN {}
                   ELSE UNION {BlockFaults(m.nodes, c, active, h, fuel - 1) :
                                  m \in {d \in c.macros : d.name = n.name}}
             [] n.k = "Include" ->
                   IF n.path \in DOMAIN contexts
                   THEN BlockFaults(contexts[n.path].nodes, contexts[n.path], NoneV, h,
                                    fuel - 1)
                   ELSE {}
             [] n.k = "If" ->
                   UNION {BlockFaults(n.branches[j].nodes, c, active, h, fuel - 1) :
                             j \in 1..Len(n.branches)}
             [] n.k = "Match" ->
                   UNION {BlockFaults(n.arms[j].nodes, c, active, h, fuel - 1) :
                             j \in 1..Len(n.arms)}
             [] n.k = "Loop" ->
                   BlockFaults(n.body, c, active, h, fuel - 1)
                       \cup BlockFaults(n.else_nodes, c, active, h, fuel - 1)
             [] OTHER -> {}
        : i \in 1..Len(nodes)}

\* the text of the literals that the lines and the queue hold
WrittenText(s) ==
    LiteralText(s.out) \o Concat([i \in 1..Len(s.bw) |->
                                     IF s.bw[i].t = "Lit" THEN s.bw[i].s ELSE <<>>])

\* C17: a node whose walk meets a definition of block B while block B is
\* active is rejected as a recursive block, a node whose walk meets super()
\* while no block is active is rejected as a stray super(), these two
\* errors are raised in no other case, and the rejected step splices no
\* block body: a top-level super() adds no line, and the body of the
\* rejected definition is written nowhere.
C17RecursiveAndStray ==
    [][(phase = "walk" /\ pc <= Len(Nodes))
          => LET met == BlockFaults(<<Nodes[pc]>>, ctx, NoneV, st.heritage, MaxNest)
             IN /\ met # {} => phase' = "error" /\ st'.err \in met
                /\ (phase' = "error" /\ st'.err \in {RecursiveBlock, StraySuper})
                      => st'.err \in met
                /\ (Nodes[pc] = Super /\ st.fdepth = 0)
                      => Rejected(StraySuper) /\ st'.out = st.out
                /\ Rejected(RecursiveBlock) => \A i \in 1..Len(WrittenText(st')) : WrittenText(st')[i] # "r"]_vars

\* block b called the macro whose body defines block b again
C17Witness ==
    /\ Failed
    /\ Nodes[pc].k = "BlockDef"
    /\ Nodes[pc].name = "b"
    /\ \E i \in 1..Len(Nodes[pc].nodes) :
          Nodes[pc].nodes[i].k = "Call" /\ Nodes[pc].nodes[i].name = "mr"
    /\ st.err = RecursiveBlock

--------------------------------------------------------------------------
(* C18 *)
(* The emitted code of a for loop, run on the items of the iterator.  The  *)
(* run is [out, did, iter, item, flow, body, els, src, keep]: the text     *)
(* written, _did_loop, _iter, the loop variable, the control flow, how     *)
(* often the loop body and the else body were entered, the items the       *)
(* iterated expression yields and the items the filter clause lets pass.   *)
LoopOps ==
    {"block_open", "did_loop_init", "let_iter", "iter_filter", "for_open", "did_loop_set",
     "if_not_did_loop", "close", "write", "write_str", "break", "continue"}

Openers == {"block_open", "for_open", "if_not_did_loop"}

\* the index of the `}` that closes the block opened before index j
RECURSIVE CloseFrom(_, _, _)
CloseFrom(lines, j, depth) ==
    IF j > Len(lines) THEN Len(lines) + 1
    ELSE IF lines[j].op \in Openers THEN CloseFrom(lines, j + 1, depth + 1)
    ELSE IF lines[j].op = "close"
    THEN IF depth = 0 THEN j ELSE CloseFrom(lines, j + 1, depth - 1)
    ELSE CloseFrom(lines, j + 1, depth)

\* what a write line writes while the loop variable holds `item`
Rendered(line, item) ==
    [i \in 1..Len(LinePieces(line)) |->
        IF LinePieces(line)[i][1] = "c" THEN LinePieces(line)[i][2]
        ELSE IF LinePieces(line)[i][2] = "x" THEN ToString(item)
        ELSE "?"]

RunStart(items, keep) ==
    [out |-> <<>>, did |-> FALSE, iter |-> <<>>, item |-> 0, flow |-> "run",
     body |-> 0, els |-> 0, src |-> items, keep |-> keep]

RECURSIVE Exec(_, _, _, _)
RECURSIVE ForEach(_, _, _, _, _)
Exec(lines, lo, hi, e) ==
    IF lo > hi \/ e.flow # "run" THEN e
    ELSE LET l == lines[lo]
             j == CloseFrom(lines, lo + 1, 0)
         IN CASE l.op = "block_open" ->
                    Exec(lines, j + 1, hi, Exec(lines, lo + 1, j - 1, e))
              [] l.op = "did_loop_init" -> Exec(lines, lo + 1, hi, [e EXCEPT !.did = FALSE])
              [] l.op = "let_iter" -> Exec(lines, lo + 1, hi, [e EXCEPT !.iter = e.src])
              [] l.op = "iter_filter" ->
                    Exec(lines, lo + 1, hi,
                         [e EXCEPT !.iter = SelectSeq(@, LAMBDA v : v \in e.keep)])
              [] l.op = "for_open" ->
                    Exec(lines, j + 1, hi, ForEach(lines, lo + 1, j - 1, 1, e))
              [] l.op = "did_loop_set" -> Exec(lines, lo + 1, hi, [e EXCEPT !.did = TRUE])
              [] l.op = "if_not_did_loop" ->
                    IF e.did THEN Exec(lines, j + 1, hi, e)
                    ELSE Exec(lines, j + 1, hi,
                              Exec(lines, lo + 1, j - 1, [e EXCEPT !.els = @ + 1]))
              [] l.op \in {"write", "write_str"} ->
                    Exec(lines, lo + 1, hi, [e EXCEPT !.out = @ \o Rendered(l, e.item)])
              [] l.op = "break" -> [e EXCEPT !.flow = "break"]
              [] l.op = "continue" -> [e EXCEPT !.flow = "continue"]
              [] OTHER -> Exec(lines, lo + 1, hi, e)

\* the for statement over e.iter from its k-th item on
ForEach(lines, lo, hi, k, e) ==
    IF k > Len(e.iter) THEN e
    ELSE LET r == Exec(lines, lo, hi, [e EXCEPT !.item = e.iter[k], !.body = @ + 1])
         IN IF r.flow = "break" THEN [r EXCEPT !.flow = "run"]
            ELSE ForEach(lines, lo, hi, k + 1, [r EXCEPT !.flow = "run"])

Run(lines, items, keep) == Exec(lines, 1, Len(lines), RunStart(items, keep))

\* the inputs at run time: the items and what the filter clause lets pass
ItemLists == {<<>>, <<1, 2, 3>>}

KeepSets == SUBSET {1, 2, 3}

\* the items that reach the loop body
Passing(n, items, keep) ==
    IF IsSome(n.cond) THEN SelectSeq(items, LAMBDA v : v \in keep) ELSE items

HasBreak(nodes) == \E i \in 1..Len(nodes) : nodes[i].k = "Break"

\* the step handled a for loop whose lines the run understands: the run
\* keeps one iterator, so the loop holds no other loop; the whole template
\* is rendered, so that the lines of the loop are not discarded
LoopHandled ==
    /\ Handled
    /\ IsNone(input.block)
    /\ Nodes[pc].k = "Loop"
    /\ \A i \in 1..Len(NewLines) : NewLines[i].op \in LoopOps
    /\ \A i, j \in 1..Len(NewLines) :
          (NewLines[i].op = "for_open" /\ NewLines[j].op = "for_open") => i = j

S2Loop ==
    LoopN(NoWs, TName("x"), Var("items"), NoneV, <<ExprN(NoWs, X)>>, NoWs,
          <<Lit(<<>>, <<"e", "m", "p", "t", "y">>, <<>>)>>, NoWs)

\* C18: in the code emitted for a for loop with an else arm, whatever the
\* items and whatever the filter clause lets pass, the else body runs once
\* if no item reaches the loop body and not at all otherwise, the loop body
\* runs once per item that reaches it (once at most when it ends in a
\* break), and the template of S2 writes `empty` for no items and `123`
\* for the items 1, 2, 3.
C18ForElse ==
    [][LoopHandled
          => \A items \in ItemLists, keep \in KeepSets :
                LET n == Nodes[pc]
                    r == Run(NewLines, items, keep)
                    pass == Passing(n, items, keep)
                IN /\ r.flow = "run"
                   /\ r.body = IF HasBreak(n.body) /\ pass # <<>> THEN 1 ELSE Len(pass)
                   /\ n.else_nodes # <<>> => (r.els = 1 <=> r.body = 0)
                   /\ n.else_nodes # <<>> => (r.els = 0 <=> r.body > 0)
                   /\ n.else_nodes = <<>> => r.els = 0
                   /\ (n = S2Loop /\ pc = 1)
                         => r.out = IF items = <<>> THEN <<"e", "m", "p", "t", "y">>
                                    ELSE <<"1", "2", "3">>]_vars

\* the loop of S2 was lowered: its lines run the else body for no items
C18Witness ==
    /\ phase = "walk"
    /\ pc = 2
    /\ Nodes[1] = S2Loop
    /\ Run(st.out, <<>>, {}).els = 1
    /\ Run(st.out, <<1, 2, 3>>, {}).els = 0
    /\ Run(st.out, <<1, 2, 3>>, {}).body = 3

--------------------------------------------------------------------------
(* C19 *)
\* the number of io::Errors around the first error that is no io::Error
\* wrapping another error
RECURSIVE Layers(_)
Layers(err) == IF err.t = "io" /\ IsSome(err.inner) THEN 1 + Layers(err.inner[1]) ELSE 0

\* the error below n io::Errors
RECURSIVE Strip(_, _)
Strip(err, n) == IF n = 0 THEN err ELSE Strip(err.inner[1], n - 1)

\* the variant that is claimed to fit the error found below every
\* io::Error
BestFitAsClaimed(err) ==
    LET x == Strip(err, Layers(err))
    IN CASE x.t = "fmt" -> ErrorFmt
         [] x.t = "rinja" -> x
         [] OTHER -> ErrorCustom(x)

\* the variant that fits the error found below every io::Error: in a build
\* with the feature serde_json a serde_json::Error has a variant of its own
BestFit(err) ==
    LET x == Strip(err, Layers(err))
    IN CASE x.t = "fmt" -> ErrorFmt
         [] x.t = "rinja" -> x
         [] x.t = "json" /\ "serde_json" \in features -> ErrorJson(x)
         [] OTHER -> ErrorCustom(x)

Converted == conv.op \in {"from_box", "from_io"}

\* what into_io_error is claimed to return: the io::Error that Custom
\* holds, and otherwise an io::Error that wraps the fmt::Error of Fmt or the
\* error that Custom or Json holds
IntoIoAsClaimed ==
    conv.op = "into_io"
        => IF conv.arg.v = "Custom" /\ conv.arg.err.t = "io" THEN conv.res = conv.arg.err
           ELSE conv.res = IoErr(Some(IF conv.arg.v = "Fmt" THEN FmtErr ELSE conv.arg.err))

\* C19 as claimed: the conversion of a boxed error or an io::Error follows
\* every io::Error that wraps another error and gives Fmt for a fmt::Error,
\* the rinja Error itself for a rinja Error and Custom holding the error
\* otherwise; into_io_error of Custom holding an io::Error gives that
\* io::Error.
C19BestFitting == (Converted => conv.res = BestFitAsClaimed(conv.arg)) /\ IntoIoAsClaimed

\* the io::Errors a conversion looks into
Budget == IF conv.op = "from_box" THEN MaxErrorUnwrapCount - 1 ELSE MaxErrorUnwrapCount

\* C19: the conversion follows the wrapped errors through at most
\* MAX_ERROR_UNWRAP_COUNT io::Errors (one less for a boxed error, whose own
\* inspection counts) and gives the best fitting variant of the error found
\* there: Fmt for a fmt::Error, the rinja Error itself, Json holding a
\* serde_json::Error in a build with the feature serde_json, and Custom
\* holding the error otherwise.  An error wrapped deeper is not inspected,
\* and the result is Custom holding what the last io::Error looked into
\* wraps.  into_io_error of Custom holding an io::Error gives that
\* io::Error, and wraps the error in an io::Error otherwise.
C19BestFittingWithinBudget ==
    /\ (Converted /\ Layers(conv.arg) <= Budget) => conv.res = BestFit(conv.arg)
    /\ (Converted /\ Layers(conv.arg) > Budget)
          => conv.res = ErrorCustom(Strip(conv.arg, Budget + 1))
    /\ IntoIoAsClaimed

\* a serde_json::Error below as many io::Errors as From<io::Error> looks
\* into, in a build with the feature serde_json
C19Witness ==
    /\ conv.op = "from_io"
    /\ "serde_json" \in features
    /\ Layers(conv.arg) = MaxErrorUnwrapCount
    /\ Strip(conv.arg, MaxErrorUnwrapCount) = JsonErr
    /\ conv.res = ErrorJson(JsonErr)

--------------------------------------------------------------------------
(* C20 *)
\* the walk is about to handle a filter block: write_filter_block begins
\* with a call of write_buf_writable on the generator as it is
AtFilterBlock == phase = "walk" /\ pc \in 1..Len(Nodes) /\ Nodes[pc].k = "FilterBlock"

\* C20: when the first write_buf_writable of write_filter_block returns
\* successfully, the writable queue is empty and next_ws is None.
C20PostFlush ==
    AtFilterBlock
        => LET flushed == WriteBufWritable(st).st
           IN Ok(flushed) => flushed.bw = <<>> /\ IsNone(flushed.next_ws)

--------------------------------------------------------------------------
(* C21 *)
\* the top level of the template holds text, interpolations and let
\* statements only
StraightNodes ==
    \A i \in 1..Len(Nodes) : Nodes[i].k \in {"Lit", "Expr", "Let"}

\* the scope chain after the let statements of `nodes`, from chain m
RECURSIVE LocalsAfter(_, _)
LocalsAfter(nodes, m) ==
    IF nodes = <<>> THEN m
    ELSE LET n == Head(nodes)
         IN LocalsAfter(Tail(nodes),
                IF n.k = "Let" THEN VisitTarget(m, IsSome(n.val), TRUE, n.var).locals ELSE m)

\* the scope chain at the position of node i
LocalsAt(i) == LocalsAfter(SubSeq(Nodes, 1, i - 1), MapChainDefault)

\* every interpolation lowered with the bindings at its position
LoweredAtUse ==
    {AutoEscaped(VisitExpr(LocalsAt(i), Nodes[i].e).text) :
        i \in {j \in 1..Len(Nodes) : Nodes[j].k = "Expr"}}

\* C21: in a sequence of text, interpolations and let statements, every
\* interpolation is lowered to the binding its variable had at the position
\* of the interpolation; an unbound name n followed by `let n = v` is
\* emitted as the field self.n.
C21ResolvedAtUse ==
    (phase = "done" /\ IsNone(input.block) /\ StraightNodes)
        => {st.out[i].args[k].text :
               <<i, k>> \in {q \in (1..Len(st.out)) \X (1..Len(Nodes)) :
                                /\ st.out[q[1]].op = "write"
                                /\ q[2] <= Len(st.out[q[1]].args)}}
             = LoweredAtUse

--------------------------------------------------------------------------
(* C22 *)
\* the walk is about to handle a let with a value, and the Buffer keeps
\* what is written to it
AtLetValue == At("Let") /\ IsSome(Nodes[pc].val) /\ ~st.bdiscard

\* the binding of the name of a let whose target is a name
LetBinding == MapChainGet(st.locals, NormalizeIdentifier(Nodes[pc].var.n))

\* the lines of a flush
FlushOps == {"write_str", "write"}

\* C22: a let with a value whose target holds a name with an initialized
\* binding writes the queue first and then the statement with the `let`
\* keyword; a let with a value whose name is declared but not initialized
\* writes a plain assignment without `let` and does not flush the queue.
C22ShadowingFlushes ==
    [][(AtLetValue /\ phase' = "walk")
          => /\ IsShadowingVariable(st.locals, Nodes[pc].var) = "yes"
                  => /\ st'.bw = <<>>
                     /\ NewLines # <<>>
                     /\ NewLines[Len(NewLines)].op = "let"
                     /\ NewLines[Len(NewLines)].kw
                     /\ st.bw # <<>>
                           => /\ Len(NewLines) = 2
                              /\ NewLines[1] = WriteBufWritable(st).st.out[Len(st.out) + 1]
             /\ (/\ Nodes[pc].var.k = "Name"
                 /\ IsSome(LetBinding)
                 /\ ~LetBinding[1].initialized)
                  => /\ st'.bw = st.bw
                     /\ Len(NewLines) = 1
                     /\ NewLines[1].op = "let"
                     /\ ~NewLines[1].kw]_vars

--------------------------------------------------------------------------
(* C23 *)
\* C23: for every finite heritage the generation ends with code or with a
\* compile error: the calls of handle never nest without end, also when two
\* blocks with different names each contain a definition of the other.
C23SplicingTerminates == st.err # "stack overflow"

--------------------------------------------------------------------------
(* C24 *)
\* the ways to pair n parameters with n arguments one to one
Pairings(n) == {f \in [1..n -> 1..n] : \A i, j \in 1..n : f[i] = f[j] => i = j}

\* under pairing f every parameter receives the value of its argument, an
\* argument `name=value` goes to the parameter called name, and the unnamed
\* arguments go to their parameters in the order of the definition
BoundBy(f, params, args, values) ==
    /\ \A j \in 1..Len(params) :
          /\ values[j].text = ValueOf(args[f[j]])
          /\ args[f[j]].k = "Named" => args[f[j]].n = params[j]
    /\ \A j, k \in 1..Len(params) :
          (j < k /\ args[f[j]].k # "Named" /\ args[f[k]].k # "Named") => f[j] < f[k]

\* C24: for every macro call that write_call accepts, the parameters and
\* the arguments are paired one to one: unnamed arguments in the order of
\* the definition, an argument 'name=value' with the parameter called name.
\* The parser passes on no call in which a name is passed twice.
C24OneToOneBinding ==
    [][(AtFullCall /\ Handled /\ Nodes[pc].args # <<>>)
          => LET n == Nodes[pc]
                 def == CalledMacro(n)
                 tuple == TupleLines(NewLines)[1]
             IN /\ tuple.names = def.args
                /\ \E f \in Pairings(Len(def.args)) :
                      BoundBy(f, def.args, n.args, tuple.values)]_vars

\* the call g(y = 7, x = 5) of macro g(x, y) was handled and binds (x, y) to
\* (5, 7)
C24Witness ==
    /\ phase = "done"
    /\ \E i \in 1..Len(Nodes) :
          /\ IsMacroCall(Nodes[i])
          /\ Nodes[i].name = "g"
          /\ Nodes[i].args = <<Named("y", Num("7")), Named("x", Num("5"))>>
    /\ \E i \in 1..Len(st.out) :
          /\ st.out[i].op = "let_tuple"
          /\ st.out[i].names = <<"x", "y">>
          /\ st.out[i].values[1].text = <<"5">>
          /\ st.out[i].values[2].text = <<"7">>

--------------------------------------------------------------------------
(* C25 *)
\* an arm of text without whitespace runs and interpolations
PlainArm(nodes) ==
    \A i \in 1..Len(nodes) :
        \/ nodes[i].k = "Lit" /\ nodes[i].lws = <<>> /\ nodes[i].rws = <<>>
        \/ nodes[i].k = "Expr"

\* the size of everything emitted inside such an arm: the bytes of its text
\* and 3 for each interpolation
ArmHint(nodes) ==
    SumSeq([i \in 1..Len(nodes) |-> IF nodes[i].k = "Lit" THEN Len(nodes[i].val) ELSE 3])

\* the per-arm hints of an if, with a zero arm when it has no else
ArmHints(branches) ==
    LET hints == [i \in 1..Len(branches) |-> ArmHint(branches[i].nodes)]
    IN IF \E i \in 1..Len(branches) : IsNone(branches[i].cond) THEN hints
       ELSE Append(hints, 0)

\* the walk is about to handle an if whose arms are plain
AtPlainIf ==
    /\ At("If")
    /\ Nodes[pc].branches # <<>>
    /\ \A i \in 1..Len(Nodes[pc].branches) : PlainArm(Nodes[pc].branches[i].nodes)

\* C25: the size hint returned for an if is the size flushed before its
\* branches plus the median of the per-arm hints, an arm's hint being the
\* size of everything emitted inside the arm, with a zero arm when there is
\* no else.
C25IfSizeHint ==
    [][(AtPlainIf /\ Handled)
          => size_hint' - size_hint
               = WriteBufWritable(HandleWs(Env, st, Nodes[pc].branches[1].ws)).sz
                 + Median(ArmHints(Nodes[pc].branches))]_vars

--------------------------------------------------------------------------
(* C26 *)
\* the included template of the include at pc, and whether it holds
\* interpolations of variables and lets of names only
Included == contexts[Nodes[pc].path].nodes

AtStraightInclude ==
    /\ At("Include")
    /\ Nodes[pc].path \in DOMAIN contexts
    /\ \A i \in 1..Len(Included) :
          \/ Included[i].k = "Expr" /\ Included[i].e.k = "Var"
          \/ Included[i].k = "Let" /\ Included[i].var.k = "Name" /\ IsSome(Included[i].val)

\* some scope of the chain binds the name
BoundIn(m, name) ==
    \/ \E i \in 1..Len(m.scopes) : ScopeHas(m.scopes[i], name)
    \/ \E i \in 1..Len(m.parent) : ScopeHas(m.parent[i], name)

\* an interpolation at position i of the included template names a local
\* when the included template bound the name before i or the including
\* template binds it at the include
IncludedLowered(i) ==
    LET name == Included[i].e.n
    IN IF \/ \E j \in 1..(i - 1) : Included[j].k = "Let" /\ Included[j].var.n = name
          \/ BoundIn(st.locals, name)
       THEN AutoEscaped(<<name>>)
       ELSE AutoEscaped(<<"self", ".", name>>)

\* C26: inside an included template the bindings of the including template
\* at the include are visible, a binding made inside the included template
\* is used only inside it, and the scope chain of the including generator
\* is the same after the include as before it.
C26IncludeLendsScopes ==
    [][(AtStraightInclude /\ Handled /\ ~st.bdiscard)
          => /\ st'.locals = st.locals
             /\ {NewLines[q[1]].args[q[2]].text :
                    q \in {r \in (1..Len(NewLines)) \X (1..Len(Included)) :
                              /\ NewLines[r[1]].op = "write"
                              /\ r[2] <= Len(NewLines[r[1]].args)}}
                  = {IncludedLowered(i) :
                        i \in {j \in 1..Len(Included) : Included[j].k = "Expr"}}]_vars

\* {% let x = 1 %}{% include %}{{ y }} with an included template
\* {% let y = 3 %}{{ y }}{{ x }}: the include wrote y and the local x, and
\* the including template's y is lowered to the field self.y
C26Witness ==
    /\ phase = "done"
    /\ Len(Nodes) = 3
    /\ Nodes[1].k = "Let"
    /\ Nodes[2].k = "Include"
    /\ Nodes[3] = ExprN(NoWs, Var("y"))
    /\ \E i \in 1..Len(st.out) - 1 :
          /\ st.out[i].op = "write"
          /\ [k \in 1..Len(st.out[i].args) |-> st.out[i].args[k].text]
                = <<AutoEscaped(<<"y">>), AutoEscaped(<<"x">>)>>
          /\ st.out[i + 1].op = "write"
          /\ st.out[i + 1].args[1].text = AutoEscaped(<<"self", ".", "y">>)
    /\ ~BoundIn(st.locals, "y")

--------------------------------------------------------------------------
(* C27 *)
\* C27: the scope chain of the generator always holds at least one scope
\* and the assertion of MapChain::pop never fails.  An if of the parser has
\* a branch and a match an arm, so every pop of write_if and write_match
\* follows a push.
C27BottomScopeKept == Len(st.locals.scopes) >= 1 /\ st.err # "panic: pop"

\* an if with two branches and a match with two arms were handled at the
\* top level: each pushed and popped a scope per branch, and the bottom
\* scope is the one that remains
C27Witness ==
    /\ phase = "done"
    /\ Len(Nodes) = 2
    /\ Nodes[1].k = "If" /\ Len(Nodes[1].branches) = 2
    /\ Nodes[2].k = "Match" /\ Len(Nodes[2].arms) = 2
    /\ Len(st.locals.scopes) = 1
    /\ st.err = ""

--------------------------------------------------------------------------
(* C28 *)
\* no two literals are adjacent at the top level of the template
NoAdjacentLits ==
    \A i \in 1..(Len(Nodes) - 1) : ~(Nodes[i].k = "Lit" /\ Nodes[i + 1].k = "Lit")

\* C28: in a sequence of nodes in which no two literals are adjacent the
\* assertion at the start of visit_lit never fails: every other node kind
\* that the walk meets resets next_ws before the next literal is visited.
\* The walk meets no extends node at the top level, the one arm of handle
\* that leaves next_ws as it is: it starts at the root of the heritage.
C28NoPendingWhitespace == NoAdjacentLits => st.err # "panic: visit_lit next_ws"

\* a literal with trailing whitespace, an import and a literal were
\* visited: the import flushed the whitespace the first literal left
C28Witness ==
    /\ phase = "done"
    /\ Len(Nodes) = 3
    /\ Nodes[1].k = "Lit" /\ Nodes[1].rws # <<>>
    /\ Nodes[2].k = "Import"
    /\ Nodes[3].k = "Lit"
    /\ st.err = ""

--------------------------------------------------------------------------
(* C29 *)
\* the walk is at the end of the nodes: the tail of handle flushes the
\* queue as it is, into a Buffer that keeps what is written
AtEnd ==
    /\ phase = "walk"
    /\ pc = Len(Nodes) + 1
    /\ IsNone(st.next_ws)
    /\ ~st.bdiscard

\* the text of the queued literals, in the order of the queue
QueuedText(bw) ==
    Concat([i \in 1..Len(bw) |-> IF bw[i].t = "Lit" THEN bw[i].s ELSE <<>>])

\* the queue piece by piece: ["c", char] for a byte of a literal and
\* ["e", code] for an interpolation
QueuePieces(locals, bw) ==
    Concat([i \in 1..Len(bw) |->
               IF bw[i].t = "Lit" THEN [k \in 1..Len(bw[i].s) |-> <<"c", bw[i].s[k]>>]
               ELSE <<<<"e", AutoEscaped(VisitExpr(locals, bw[i].e).text)>>>>])

\* the format string of a formatting call piece by piece, with doubled
\* braces read back as one
FormatPieces(line) ==
    LET f == Unescaped(line.fmt)
    IN [i \in 1..Len(f) |->
           IF f[i].t = "c" THEN <<"c", f[i].c>>
           ELSE <<"e", line.args[ArgOf(line, f[i].id)].text>>]

\* C29: a flush of the empty queue writes nothing and returns 0; a flush of
\* literals writes one write_str of their concatenation and returns its
\* length; a flush of a mixed queue writes one formatting call and returns
\* the length of the literals before brace escaping plus 3 for each
\* interpolation; the pieces keep the order of the queue.
C29FlushSizeHint ==
    [][(AtEnd /\ phase' = "done")
          => LET text == QueuedText(st.bw)
                 slots == Len(QueuedExprs(st.bw))
             IN /\ size_hint' - size_hint = Len(text) + 3 * slots
                /\ IF st.bw = <<>> THEN NewLines[1].op \notin FlushOps
                   ELSE /\ NewLines[2].op \notin FlushOps
                        /\ IF slots = 0
                           THEN NewLines[1] = [op |-> "write_str", s |-> text]
                           ELSE /\ NewLines[1].op = "write"
                                /\ FormatPieces(NewLines[1])
                                     = QueuePieces(st.locals, st.bw)]_vars

\* {b{{ x }}a was flushed at the end of the template: one formatting call
\* whose format string holds the doubled brace, and a size hint of 2 + 3 + 1
C29Witness ==
    /\ phase = "done"
    /\ size_hint = 6
    /\ Nodes = <<Lit(<<>>, <<"{", "b">>, <<>>), ExprN(NoWs, X), Lit(<<>>, Ch("a"), <<>>)>>
    /\ \E i \in 1..Len(st.out) :
          /\ st.out[i].op = "write"
          /\ Len(st.out[i].fmt) = 5
          /\ st.out[i].fmt[1].c = "{"
          /\ st.out[i].fmt[2].c = "{"

--------------------------------------------------------------------------
(* C30 *)
\* the calls of ErrorKind::inspect that from_from_io_error makes
RECURSIVE FromIoInspections(_, _)
FromIoInspections(err, unwraps) ==
    IF IsNone(err.inner) \/ unwraps = 0 THEN 0
    ELSE 1 + (IF Inspect(err.inner[1]) = "Io"
              THEN FromIoInspections(err.inner[1], unwraps - 1) ELSE 0)

\* the calls of ErrorKind::inspect that error_from_stderror makes
StderrorInspections(err, unwraps) ==
    IF unwraps = 0 THEN 0
    ELSE 1 + (IF Inspect(err) = "Io" THEN FromIoInspections(err, unwraps - 1) ELSE 0)

\* the errors the conversion at hand has inspected
Inspections ==
    IF conv.op = "from_box" THEN StderrorInspections(conv.arg, MaxErrorUnwrapCount)
    ELSE FromIoInspections(conv.arg, MaxErrorUnwrapCount)

\* a fmt::Error below one io::Error or more
FmtInIo == Layers(conv.arg) >= 1 /\ Strip(conv.arg, Layers(conv.arg)) = FmtErr

\* C30: the conversion of a boxed error or an io::Error gives an Error after
\* at most MAX_ERROR_UNWRAP_COUNT inspections; From<io::Error> of a
\* fmt::Error below k io::Errors gives Fmt for k up to
\* MAX_ERROR_UNWRAP_COUNT, and for a greater k gives Custom holding what the
\* io::Error at which the unwraps ran out wraps.
C30BoundedUnwrapping ==
    /\ Converted => conv.res.t = "rinja" /\ Inspections <= MaxErrorUnwrapCount
    /\ (conv.op = "from_io" /\ FmtInIo)
          => conv.res = IF Layers(conv.arg) <= MaxErrorUnwrapCount THEN ErrorFmt
                        ELSE ErrorCustom(Strip(conv.arg, MaxErrorUnwrapCount + 1))

\* a fmt::Error below one io::Error more than From<io::Error> looks into:
\* every unwrap is spent and the result holds the fmt::Error uninspected
C30Witness ==
    /\ conv.op = "from_io"
    /\ FmtInIo
    /\ Layers(conv.arg) = MaxErrorUnwrapCount + 1
    /\ Inspections = MaxErrorUnwrapCount
    /\ conv.res = ErrorCustom(FmtErr)

====
